---- MODULE Spec2Model ----
(***************************************************************************)
(* Model of the supersonic dispatch layer: the ScsynthOSC orchestrator     *)
(* (js/lib/scsynth_osc.js) with its three workers, and the SuperSonic      *)
(* facade (js/supersonic.js) with its time-offset bridge.                  *)
(*                                                                         *)
(* Time is counted in ticks of one second (MsPerTick milliseconds).  A     *)
(* JavaScript task (a call from the application, a message event, a timer) *)
(* together with the promise continuations it releases is one action: the  *)
(* microtask queue is emptied before the next task starts.                 *)
(***************************************************************************)
EXTENDS Integers, Sequences, FiniteSets, TLC

VARIABLES
    workers,        \* ScsynthOSC.workers: kind -> handle (0 is null, c > 0 the workers made by init call c)
    initialized,    \* ScsynthOSC.initialized
    sharedRegion,   \* ScsynthOSC.sharedBuffer / ringBufferBase / bufferConstants
    wk,             \* the Worker objects: call -> kind -> record
    calls,          \* the ScsynthOSC.init() invocations: call -> record (age: ticks since its timers were armed)
    numCalls,       \* how many times init() was invoked
    notified,       \* invocations of callbacks.onInitialized
    readied,        \* transitions of initialized from false to true
    errors,         \* invocations of callbacks.onError, in order
    unit,           \* the outbound unit behind each oscOut worker: call -> record
    sent,           \* the send() calls the orchestrator accepted, as the caller made them
    last,           \* the most recent send()/sendOSC() call on the facade and its outcome
    sonic,          \* the fields of the SuperSonic object, and the position of its init()
    audioContext,   \* SuperSonic.audioContext: its state and currentTime (ms)
    wallClock,      \* Date.now() (ms)
    sampled,        \* 2208988800 s + wall - currentTime at the latest transition into 'running'
    stats,          \* the ScsynthOSC.getStats() invocations: index -> record
    inflight,       \* the events on their way from each worker to the page: call -> kind -> queue
    produced,       \* the items each worker has produced, in order: call -> kind -> sequence
    received,       \* the invocations of callbacks.onOSCMessage and onDebugMessage: observer -> sequence
    codecIn,        \* the packet given to SuperSonic.osc.encode
    codecMeta,      \* the option metadata given to SuperSonic.osc.decode
    codecTags,      \* the type tag string of the bytes given to decode, when they were not encoded
    codecWire,      \* the bytes: what encode returned, or what is given to decode
    codecOut,       \* what decode returned, or the Error it threw
    codecPc,        \* how far the codec has been applied
    audio,          \* the AudioInterface of the page, its init() calls and the engines it made
    page,           \* the timers set by the sphere-count control and the createSpheres calls
    notes           \* the note given to quantizeToScale, the config, and what it returned

oscVars == <<workers, initialized, sharedRegion, wk, calls, numCalls,
             notified, readied, errors>>
unitVars == <<unit>>
callerVars == <<sent, last>>
sonicVars == <<sonic, audioContext, wallClock, sampled>>

runVars == <<stats, inflight, produced, received>>
codecVars == <<codecIn, codecMeta, codecTags, codecWire, codecOut, codecPc>>

appVars == <<audio, page, notes>>

vars == <<oscVars, unitVars, callerVars, sonicVars, runVars, codecVars, appVars>>

----------------------------------------------------------------------------
(* Bounds *)

MaxInits == 2       \* init() invocations on one orchestrator
MaxErrors == 1      \* 'error' messages posted by workers
MaxSends == 2       \* send() calls the orchestrator accepts
MaxCancels == 1     \* cancel requests the orchestrator forwards
MaxSonicSends == 1  \* sendOSC() calls the facade passes on (stats.messagesSent)
MaxRequests == 3    \* send, sendImmediate and cancel calls made in a row
MaxClicks == 3      \* AudioInterface.init() calls of one page
MaxCollisions == 2  \* collisions reported to the AudioInterface
MaxEvents == 3      \* input events of the sphere-count control
MaxTime == 8        \* how long the page is watched, in ticks of 100 ms
MaxNote == 14       \* how far below and above the root note a raw note is
MaxTicks == 2       \* seconds the wall clock runs in the facade's specification
MaxStats == 1       \* getStats() invocations
MaxItems == 3       \* messages a worker produces
MaxBurst == 2       \* messages in one 'messages' or 'debug' event
MaxArgs == 2        \* scalar arguments in the innermost list of a message
MaxDepth == 2       \* levels of arrays around the arguments of a message
MaxBundles == 2     \* levels of bundles around a message
MaxTags == 7        \* tags in a type tag string given to decode
MaxChars == 5       \* characters of a string, bytes of a blob
MaxSendArgs == 1    \* arguments of a call of SuperSonic.send

(* Program constants *)

InitTimeout == 5    \* setTimeout(..., 5e3) in initWorker, in ticks
StatsTimeout == 1   \* setTimeout(..., 1e3) in getWorkerStats, in ticks
DebounceWait == 3   \* debounce(simulation, 300), in ticks of 100 ms
WorkletTimeout == 5 \* setTimeout(..., 5e3) in #waitForWorkletInit, in ticks
MsPerTick == 1000

Null == 0
Kinds == <<"oscOut", "oscIn", "debug">>
KindSet == {Kinds[i] : i \in 1..3}
Calls == 1..MaxInits

KindIndex(k) == CHOOSE i \in 1..3 : Kinds[i] = k

\* the name initWorker is given for each worker (lines 37-39)
WorkerName(k) ==
    CASE k = "oscOut" -> "OSC OUT"
      [] k = "oscIn" -> "OSC IN"
      [] k = "debug" -> "DEBUG"

RegionA == [sharedBuffer |-> "sabA", ringBufferBase |-> 0, bufferConstants |-> "layoutA"]
RegionB == [sharedBuffer |-> "sabB", ringBufferBase |-> 64, bufferConstants |-> "layoutB"]
Regions == {RegionA, RegionB}

NoRegion == [sharedBuffer |-> "null", ringBufferBase |-> -1, bufferConstants |-> "null"]

NoWorker ==
    [alive |-> FALSE, acked |-> FALSE, listening |-> FALSE, timer |-> FALSE,
     inbox |-> <<>>]

\* age: ticks since the timers of the call were armed, counted while one is pending;
\* timedOutAt: the age at which a timeout rejected the call
NoCall == [state |-> "none", age |-> 0, timedOutAt |-> -1, err |-> <<>>]

\* a number of milliseconds that may lie decades away: TLC's integers have 32
\* bits, so a quantity is kept as epochs * 2208988800000 + ms
Num(e, ms) == [epochs |-> e, ms |-> ms]
Ms(ms) == Num(0, ms)
NumAdd(a, b) == Num(a.epochs + b.epochs, a.ms + b.ms)
NumSub(a, b) == Num(a.epochs - b.epochs, a.ms - b.ms)
Positive(a) == a.epochs > 0 \/ (a.epochs = 0 /\ a.ms > 0)

\* waitTimeMs: <<>> is null, <<d>> the number d
NullWait == <<>>

\* wasmTimeOffset: <<>> is null, <<d>> the number d
NoOffset == <<>>

NoLast ==
    [op |-> "none", ready |-> FALSE, raised |-> FALSE, forwarded |-> 0,
     payload |-> <<>>, delay |-> NullWait, offset |-> NoOffset, now |-> 0]

\* the SuperSonic object after its constructor (lines 1072-1086);
\* timeOffsetPromise is <<>> while _timeOffsetPromise is pending and <<d>> once it is
\* resolved with d; loadWasm is <<d>> once 'loadWasm' is posted with timeOffset d;
\* settled is how the promise of the init() that does the bring-up ended and
\* thrown the error it rejected with, again how the promise of an init() called
\* meanwhile ended; reported counts the calls of
\* this.onError since that bring-up began, statErrors is stats.errors, and age the
\* ticks since #waitForWorkletInit armed its timer (-1: not armed)
NoSonic ==
    [initialized |-> FALSE, initializing |-> FALSE, osc |-> FALSE,
     wasmTimeOffset |-> NoOffset, resolveTimeOffset |-> FALSE,
     pc |-> "idle", messagesSent |-> 0, observed |-> 0,
     timeOffsetPromise |-> NoOffset, loadWasm |-> NoOffset,
     settled |-> "none", thrown |-> <<>>, again |-> "none", reported |-> 0,
     statErrors |-> 0, age |-> -1]

NoContext == [state |-> "null", currentTime |-> 0]

\* Date.now() when the page starts, in ms
WallStart == 9950

\* the observers of decoded inbound messages and of diagnostic messages
Observers == {"onOSCMessage", "onDebugMessage"}

\* a getStats() invocation.  ready: initialized when it was called; on: the worker
\* asked for each kind; result: "pending", "stats" or "timeout" for each kind;
\* age: ticks since the call; settledAt: the age at which the call resolved
NoStats ==
    [state |-> "none", ready |-> FALSE, on |-> [k \in KindSet |-> Null],
     result |-> [k \in KindSet |-> "none"], timer |-> [k \in KindSet |-> FALSE],
     listening |-> [k \in KindSet |-> FALSE], age |-> 0, settledAt |-> -1]

NoUnit ==
    [next |-> 1, pending |-> {}, dropped |-> {}, dispatched |-> <<>>, wrote |-> <<>>]

\* options.f, or the default of the destructuring in send() (line 145)
Opt(options, f, default) == IF f \in DOMAIN options THEN options[f] ELSE default

----------------------------------------------------------------------------
(* Helpers *)

\* mutant: the message overtakes what is already in the worker's queue
Post_overtakes(w, c, k, msg) ==
    IF w[c][k].alive
    THEN [w EXCEPT ![c][k].inbox = <<msg>> \o @]
    ELSE w

\* worker.postMessage(msg): appended to the worker's queue; a terminated worker drops it
Post(w, c, k, msg) ==
    IF w[c][k].alive
    THEN [w EXCEPT ![c][k].inbox = Append(@, msg)]
    ELSE w

\* number of requests in the queues of all workers
TotalPosted(w) ==
    LET n(c, k) == Len(w[c][k].inbox)
        RECURSIVE sum(_)
        sum(c) == IF c = 0 THEN 0
                  ELSE n(c, "oscOut") + n(c, "oscIn") + n(c, "debug") + sum(c - 1)
    IN sum(MaxInits)

InitMessage(region) ==
    [type |-> "init", sharedBuffer |-> region.sharedBuffer,
     ringBufferBase |-> region.ringBufferBase,
     bufferConstants |-> region.bufferConstants]

\* mutant: the three handshakes are awaited one after the other, each with its
\* own 5 s
Due_serial(c, k) == wk[c][k].timer /\ calls[c].age >= InitTimeout * KindIndex(k)

\* the timer of (c, k) has run its delay
Due(c, k) == wk[c][k].timer /\ calls[c].age >= InitTimeout

\* a due timer that fires before the timer of (c, k): timers of equal
\* deadline fire in the order in which they were set
EarlierTimer(c, k) ==
    \E c2 \in Calls, k2 \in KindSet :
        /\ Due(c2, k2)
        /\ \/ c2 < c
           \/ c2 = c /\ KindIndex(k2) < KindIndex(k)

TimerDue == \E c \in Calls, k \in KindSet : Due(c, k)

TimerPending(c) == \E k \in KindSet : wk[c][k].timer

----------------------------------------------------------------------------
(* ScsynthOSC *)

\* no packet
NoPacket == [address |-> <<>>, args |-> <<>>]

\* AudioInterface after its constructor: this.sonic = null, this.initialised =
\* false; engines are the SuperSonic objects it has made, inits its init() calls
NoAudio == [initialised |-> FALSE, sonic |-> 0, engines |-> <<>>, inits |-> <<>>,
            collisions |-> 0, raised |-> FALSE]

\* the page before any input event: no timer is set, createSpheres was not called
NoPage == [now |-> 0, events |-> <<>>, closures |-> 0, timers |-> {}, created |-> <<>>]

\* no note has been given to quantizeToScale
NoNotes == [currentScale |-> "No Scale", rootNote |-> 0, rawNote |-> 0,
            pc |-> "none", note |-> 0, again |-> 0]

\* the objects after construction
Constructed ==
    /\ workers = [k \in KindSet |-> Null]
    /\ initialized = FALSE
    /\ sharedRegion = NoRegion
    /\ wk = [c \in Calls |-> [k \in KindSet |-> NoWorker]]
    /\ calls = [c \in Calls |-> NoCall]
    /\ numCalls = 0
    /\ notified = 0
    /\ readied = 0
    /\ errors = <<>>
    /\ unit = [c \in Calls |-> NoUnit]
    /\ sent = <<>>
    /\ last = NoLast
    /\ sonic = NoSonic
    /\ audioContext = NoContext
    /\ wallClock = WallStart
    /\ sampled = NoOffset
    /\ stats = [n \in 1..MaxStats |-> NoStats]
    /\ inflight = [c \in Calls |-> [k \in KindSet |-> <<>>]]
    /\ produced = [c \in Calls |-> [k \in KindSet |-> <<>>]]
    /\ received = [o \in Observers |-> <<>>]
    /\ audio = NoAudio
    /\ page = NoPage

Init ==
    /\ Constructed
    /\ notes = NoNotes
    /\ codecIn = NoPacket
    /\ codecMeta = FALSE
    /\ codecTags = <<>>
    /\ codecWire = <<>>
    /\ codecOut = NoPacket
    /\ codecPc = "none"

\* initWorker(worker, name): arm the timeout, attach the handler, post 'init'
initWorker(w, c, k, region) ==
    Post([w EXCEPT ![c][k].timer = TRUE, ![c][k].listening = TRUE],
         c, k, InitMessage(region))

\* ScsynthOSC.init(sharedBuffer, ringBufferBase, bufferConstants) up to its await
OscInit(region) ==
    /\ numCalls < MaxInits
    /\ numCalls' = numCalls + 1
    /\ LET c == numCalls + 1 IN
       IF initialized
       THEN /\ calls' = [calls EXCEPT ![c] = [NoCall EXCEPT !.state = "returned"]]
            /\ UNCHANGED <<workers, sharedRegion, wk>>
       ELSE /\ sharedRegion' = region
            /\ workers' = [k \in KindSet |-> c]
            /\ LET w0 == [wk EXCEPT ![c] = [k \in KindSet |->
                             [NoWorker EXCEPT !.alive = TRUE]]]
                   w1 == initWorker(w0, c, "oscOut", region)
                   w2 == initWorker(w1, c, "oscIn", region)
                   w3 == initWorker(w2, c, "debug", region)
               IN wk' = w3
            /\ calls' = [calls EXCEPT ![c] = [NoCall EXCEPT !.state = "awaiting"]]
    /\ UNCHANGED <<initialized, notified, readied, errors>>

\* the rest of init() after `await Promise.all(initPromises)` resolved (lines 42-47),
\* with the catch block (lines 48-54) when a handle is null
InitResume(c, w) ==
    IF workers["oscIn"] = Null
    THEN /\ wk' = w
         /\ calls' = [calls EXCEPT ![c].state = "rejected", ![c].age = 0,
                                   ![c].err = <<"TypeError">>]
         /\ errors' = Append(errors, [error |-> <<"TypeError">>, unit |-> "undefined"])
         /\ UNCHANGED <<initialized, notified, readied>>
    ELSE /\ wk' = Post(Post(w, workers["oscIn"], "oscIn", [type |-> "start"]),
                       workers["debug"], "debug", [type |-> "start"])
         /\ initialized' = TRUE
         /\ readied' = IF initialized THEN readied ELSE readied + 1
         /\ notified' = notified + 1
         /\ calls' = [calls EXCEPT ![c].state = "resolved", ![c].age = 0]
         /\ UNCHANGED errors

\* mutant: init() goes on as soon as one worker has answered (Promise.race)
WorkerInitialized_race(c, k) ==
    /\ wk[c][k].alive
    /\ ~wk[c][k].acked
    /\ LET w == IF wk[c][k].listening
                THEN [wk EXCEPT ![c][k].acked = TRUE, ![c][k].timer = FALSE,
                                ![c][k].listening = FALSE]
                ELSE wk
       IN IF wk[c][k].listening /\ calls[c].state = "awaiting"
          THEN InitResume(c, w)
          ELSE /\ wk' = w
               /\ UNCHANGED <<initialized, notified, readied, calls, errors>>
    /\ UNCHANGED <<workers, sharedRegion, numCalls>>

\* the worker answers 'initialized': the handler of initWorker (lines 64-70) runs
WorkerInitialized(c, k) ==
    /\ wk[c][k].alive
    /\ ~wk[c][k].acked
    /\ LET w == IF wk[c][k].listening
                THEN [wk EXCEPT ![c][k].acked = TRUE, ![c][k].timer = FALSE,
                                ![c][k].listening = FALSE]
                ELSE wk
       IN IF /\ wk[c][k].listening
             /\ calls[c].state = "awaiting"
             /\ \A k2 \in KindSet : w[c][k2].acked
          THEN InitResume(c, w)
          ELSE /\ wk' = w
               /\ UNCHANGED <<initialized, notified, readied, calls, errors>>
    /\ UNCHANGED <<workers, sharedRegion, numCalls>>

\* mutant: a reported error makes the orchestrator give the unit up
WorkerError_fatal(c, k) ==
    /\ wk[c][k].alive
    /\ Cardinality({i \in DOMAIN errors : errors[i].error[1] = "worker"}) < MaxErrors
    /\ errors' = Append(errors, [error |-> <<"worker", c, k>>, unit |-> k])
    /\ wk' = [wk EXCEPT ![c][k].alive = FALSE]
    /\ workers' = [workers EXCEPT ![k] = IF @ = c THEN Null ELSE @]
    /\ UNCHANGED <<initialized, sharedRegion, calls, numCalls, notified, readied>>

\* the worker posts {type: 'error'}: its onmessage handler (lines 84-130) runs
WorkerError(c, k) ==
    /\ wk[c][k].alive
    /\ Cardinality({i \in DOMAIN errors : errors[i].error[1] = "worker"}) < MaxErrors
    /\ errors' = Append(errors, [error |-> <<"worker", c, k>>, unit |-> k])
    /\ UNCHANGED <<workers, initialized, sharedRegion, wk, calls, numCalls,
                   notified, readied>>

\* the timer of initWorker fires (lines 61-63) and rejects the handshake
InitTimeoutFires(c, k) ==
    /\ Due(c, k)
    /\ ~EarlierTimer(c, k)
    /\ wk' = [wk EXCEPT ![c][k].timer = FALSE]
    /\ IF calls[c].state = "awaiting"
       THEN /\ calls' = [calls EXCEPT ![c].state = "rejected",
                                      ![c].timedOutAt = calls[c].age,
                                      ![c].err = <<"timeout", WorkerName(k)>>]
            /\ errors' = Append(errors, [error |-> <<"timeout", WorkerName(k)>>,
                                         unit |-> "undefined"])
       ELSE UNCHANGED <<calls, errors>>
    /\ UNCHANGED <<workers, initialized, sharedRegion, numCalls,
                   notified, readied>>

\* mutant: terminate() leaves the initialized flag as it is
OscTerminate_stillReady ==
    /\ LET stop(w, k) == IF workers[k] = Null THEN w
                         ELSE [Post(w, workers[k], k, [type |-> "stop"])
                                  EXCEPT ![workers[k]][k].alive = FALSE]
       IN wk' = stop(stop(stop(wk, "oscOut"), "oscIn"), "debug")
    /\ workers' = [k \in KindSet |-> Null]
    /\ UNCHANGED <<initialized, sharedRegion, calls, numCalls, notified, readied, errors>>

\* ScsynthOSC.terminate()
OscTerminate ==
    /\ LET stop(w, k) == IF workers[k] = Null THEN w
                         ELSE [Post(w, workers[k], k, [type |-> "stop"])
                                  EXCEPT ![workers[k]][k].alive = FALSE]
       IN wk' = stop(stop(stop(wk, "oscOut"), "oscIn"), "debug")
    /\ workers' = [k \in KindSet |-> Null]
    /\ initialized' = FALSE
    /\ UNCHANGED <<sharedRegion, calls, numCalls, notified, readied, errors>>

\* a call on the orchestrator dereferences a null worker handle (TypeError)
OscRaises == initialized /\ workers["oscOut"] = Null

\* the request to the outbound worker, or nothing when not initialized (the guards
\* of send, sendImmediate and cancel*)
Forward(msg) ==
    /\ wk' = IF initialized /\ workers["oscOut"] # Null
             THEN Post(wk, workers["oscOut"], "oscOut", msg)
             ELSE wk
    /\ UNCHANGED <<workers, initialized, sharedRegion, calls, numCalls,
                   notified, readied, errors>>

\* mutant: the delay is not passed on to the outbound worker
OscSend_nowait(oscData, options) ==
    Forward([type |-> "send", oscData |-> oscData,
             editorId |-> Opt(options, "editorId", 0),
             runTag |-> Opt(options, "runTag", ""),
             waitTimeMs |-> NullWait])

\* ScsynthOSC.send(oscData, options)
OscSend(oscData, options) ==
    Forward([type |-> "send", oscData |-> oscData,
             editorId |-> Opt(options, "editorId", 0),
             runTag |-> Opt(options, "runTag", ""),
             waitTimeMs |-> Opt(options, "waitTimeMs", NullWait)])

\* mutant: the immediate request carries the fields of a send request as well
OscSendImmediate_asSend(oscData) ==
    Forward([type |-> "sendImmediate", oscData |-> oscData,
             editorId |-> 0, runTag |-> "", waitTimeMs |-> NullWait])

\* ScsynthOSC.sendImmediate(oscData)
OscSendImmediate(oscData) ==
    Forward([type |-> "sendImmediate", oscData |-> oscData])

\* ScsynthOSC.cancelEditorTag(editorId, runTag)
OscCancelEditorTag(editorId, runTag) ==
    Forward([type |-> "cancelEditorTag", editorId |-> editorId, runTag |-> runTag])

\* ScsynthOSC.cancelEditor(editorId)
OscCancelEditor(editorId) ==
    Forward([type |-> "cancelEditor", editorId |-> editorId])

\* ScsynthOSC.cancelAll()
OscCancelAll == Forward([type |-> "cancelAll"])

\* the timers of the handshakes run for one tick
TimersTick ==
    /\ calls' = [c \in Calls |-> IF TimerPending(c)
                                 THEN [calls[c] EXCEPT !.age = @ + 1]
                                 ELSE calls[c]]
    /\ UNCHANGED <<workers, initialized, sharedRegion, wk, numCalls,
                   notified, readied, errors>>

\* the clock advances by one tick; a due timer fires first
Tick ==
    /\ \E c \in Calls : TimerPending(c)
    /\ ~TimerDue
    /\ TimersTick

\* The orchestrator used as the facade uses it: init() is called once on an
\* instance.
Next ==
    \/ \E region \in Regions :
          numCalls = 0 /\ OscInit(region) /\ UNCHANGED <<unitVars, callerVars, sonicVars, codecVars, appVars, runVars>>
    \/ \E c \in Calls, k \in KindSet :
          WorkerInitialized(c, k) /\ UNCHANGED <<unitVars, callerVars, sonicVars, codecVars, appVars, runVars>>
    \/ \E c \in Calls, k \in KindSet :
          WorkerError(c, k) /\ UNCHANGED <<unitVars, callerVars, sonicVars, codecVars, appVars, runVars>>
    \/ \E c \in Calls, k \in KindSet :
          InitTimeoutFires(c, k) /\ UNCHANGED <<unitVars, callerVars, sonicVars, codecVars, appVars, runVars>>
    \/ OscTerminate /\ UNCHANGED <<unitVars, callerVars, sonicVars, codecVars, appVars, runVars>>
    \/ Tick /\ UNCHANGED <<unitVars, callerVars, sonicVars, codecVars, appVars, runVars>>

Spec == Init /\ [][Next]_vars

\* The orchestrator called by an application that does not wait: init() calls
\* overlap; the workers post no 'error' message.
NextOverlap ==
    \/ OscInit(RegionA) /\ UNCHANGED <<unitVars, callerVars, sonicVars, codecVars, appVars, runVars>>
    \/ \E c \in Calls, k \in KindSet :
          WorkerInitialized(c, k) /\ UNCHANGED <<unitVars, callerVars, sonicVars, codecVars, appVars, runVars>>
    \/ \E c \in Calls, k \in KindSet :
          InitTimeoutFires(c, k) /\ UNCHANGED <<unitVars, callerVars, sonicVars, codecVars, appVars, runVars>>
    \/ OscTerminate /\ UNCHANGED <<unitVars, callerVars, sonicVars, codecVars, appVars, runVars>>
    \/ Tick /\ UNCHANGED <<unitVars, callerVars, sonicVars, codecVars, appVars, runVars>>

SpecOverlap == Init /\ [][NextOverlap]_vars

----------------------------------------------------------------------------
(* The outbound unit (dist/workers/osc_out_worker.js), from its contract in the  *)
(* specification: it takes the requests of its queue in order; a send without a *)
(* delay is dispatched at once, a send with a delay is held until the delay has *)
(* elapsed; a cancel drops the held sends that match its key.  A request is     *)
(* taken from the queue in the tick in which it was posted.                     *)

\* ticks a send with waitTimeMs w is held
HoldTicks(w) ==
    IF w = NullWait \/ ~Positive(w[1]) THEN 0
    ELSE (w[1].ms + MsPerTick - 1) \div MsPerTick

\* a cancel request matches a send request: exact editor and tag, editor only, all
Matches(cancel, send) ==
    CASE cancel.type = "cancelEditorTag" ->
            cancel.editorId = send.editorId /\ cancel.runTag = send.runTag
      [] cancel.type = "cancelEditor" -> cancel.editorId = send.editorId
      [] cancel.type = "cancelAll" -> TRUE
      [] OTHER -> FALSE

CancelTypes == {"cancelEditorTag", "cancelEditor", "cancelAll"}

Outbox(c) == wk[c]["oscOut"].inbox

\* the size that precedes an element of a bundle: four bytes, big-endian
ElementSize(data, idx) ==
    data[idx + 1] * 16777216 + data[idx + 2] * 65536 + data[idx + 3] * 256
        + data[idx + 4]

\* the messages of a payload: the payload itself, or for a bundle ("#bundle", a
\* NUL and a time tag) the messages of its elements, in their order
RECURSIVE Flatten(_)
RECURSIVE FlattenElements(_, _)
Flatten(data) ==
    IF Len(data) >= 16 /\ SubSeq(data, 1, 8) = <<35, 98, 117, 110, 100, 108, 101, 0>>
    THEN FlattenElements(data, 16)
    ELSE <<data>>

FlattenElements(data, idx) ==
    IF idx + 4 > Len(data) THEN <<>>
    ELSE LET size == ElementSize(data, idx)
         IN IF size = 0 \/ idx + 4 + size > Len(data) THEN <<>>
            ELSE Flatten(SubSeq(data, idx + 5, idx + 4 + size))
                    \o FlattenElements(data, idx + 4 + size)

\* the unit of call c takes the next request of its queue
UnitReceive(c) ==
    /\ wk[c]["oscOut"].alive
    /\ unit[c].next <= Len(Outbox(c))
    /\ LET i == unit[c].next
           msg == Outbox(c)[i]
           u == [unit[c] EXCEPT !.next = i + 1]
       IN unit' = [unit EXCEPT ![c] =
            CASE msg.type = "send" /\ msg.waitTimeMs = NullWait ->
                    [u EXCEPT !.dispatched = Append(@, i),
                              !.wrote = Append(@, msg.oscData)]
              [] msg.type = "send" /\ msg.waitTimeMs # NullWait ->
                    [u EXCEPT !.pending = @ \cup {[idx |-> i, left |-> HoldTicks(msg.waitTimeMs)]}]
              [] msg.type = "sendImmediate" ->
                    [u EXCEPT !.dispatched = Append(@, i),
                              !.wrote = @ \o Flatten(msg.oscData)]
              [] msg.type \in CancelTypes ->
                    LET hit == {q \in u.pending : Matches(msg, Outbox(c)[q.idx])}
                    IN [u EXCEPT !.pending = @ \ hit,
                                 !.dropped = @ \cup {q.idx : q \in hit}]
              [] OTHER -> u]
    /\ UNCHANGED oscVars

\* the delay of a held send has elapsed: the unit dispatches it
UnitRelease(c) ==
    /\ wk[c]["oscOut"].alive
    /\ \E q \in unit[c].pending :
          /\ q.left = 0
          /\ unit' = [unit EXCEPT ![c].pending = @ \ {q},
                                  ![c].dispatched = Append(@, q.idx),
                                  ![c].wrote = Append(@, Outbox(c)[q.idx].oscData)]
    /\ UNCHANGED oscVars

\* a living unit has a request to take or a held send to dispatch
UnitBusy ==
    \E c \in Calls :
        /\ wk[c]["oscOut"].alive
        /\ \/ unit[c].next <= Len(Outbox(c))
           \/ \E q \in unit[c].pending : q.left = 0

UnitHolding == \E c \in Calls : wk[c]["oscOut"].alive /\ unit[c].pending # {}

\* the held sends wait for one tick
UnitTick ==
    unit' = [c \in Calls |->
                [unit[c] EXCEPT !.pending = {[q EXCEPT !.left = @ - 1] : q \in @}]]

----------------------------------------------------------------------------
(* The application calling the orchestrator *)

\* the options of the send() calls: three delayed sends that differ in editor or
\* tag, and one send that leaves editor and delay to their defaults
SendOptions ==
    { [editorId |-> 1, runTag |-> "x", waitTimeMs |-> <<Ms(1500)>>],
      [editorId |-> 1, runTag |-> "y", waitTimeMs |-> <<Ms(1500)>>],
      [editorId |-> 2, runTag |-> "x", waitTimeMs |-> <<Ms(1500)>>],
      [runTag |-> "x"] }

\* the keys of the cancel calls
CancelEditors == {1}
CancelTags == {"x"}

\* the message "/a" without arguments: osc.writePacket({address: "/a", args: []})
Packet == <<47, 97, 0, 0, 44, 0, 0, 0>>

\* osc.send(packet, options)
CallSend(options) ==
    /\ Len(sent) < MaxSends
    /\ OscSend(Packet, options)
    /\ sent' = IF initialized
               THEN Append(sent, [c |-> workers["oscOut"],
                                  idx |-> Len(wk[workers["oscOut"]]["oscOut"].inbox) + 1,
                                  editorId |-> Opt(options, "editorId", 0),
                                  runTag |-> Opt(options, "runTag", ""),
                                  left |-> HoldTicks(Opt(options, "waitTimeMs", NullWait)),
                                  revoked |-> FALSE, after |-> Len(errors)])
               ELSE sent
    /\ UNCHANGED unit

NumCancels ==
    LET n(c) == Cardinality({i \in DOMAIN Outbox(c) : Outbox(c)[i].type \in CancelTypes})
        RECURSIVE sum(_)
        sum(c) == IF c = 0 THEN 0 ELSE n(c) + sum(c - 1)
    IN sum(MaxInits)

\* the sends whose requested delay has not elapsed when the cancel is called are
\* marked revoked
Revoke(cancel) ==
    [i \in DOMAIN sent |->
        IF initialized /\ sent[i].c = workers["oscOut"] /\ sent[i].left > 0
           /\ Matches(cancel, sent[i])
        THEN [sent[i] EXCEPT !.revoked = TRUE]
        ELSE sent[i]]

\* osc.cancelEditorTag(editorId, runTag)
CallCancelEditorTag(editorId, runTag) ==
    /\ NumCancels < MaxCancels
    /\ OscCancelEditorTag(editorId, runTag)
    /\ sent' = Revoke([type |-> "cancelEditorTag", editorId |-> editorId,
                       runTag |-> runTag])
    /\ UNCHANGED unit

\* osc.cancelEditor(editorId)
CallCancelEditor(editorId) ==
    /\ NumCancels < MaxCancels
    /\ OscCancelEditor(editorId)
    /\ sent' = Revoke([type |-> "cancelEditor", editorId |-> editorId])
    /\ UNCHANGED unit

\* osc.cancelAll()
CallCancelAll ==
    /\ NumCancels < MaxCancels
    /\ OscCancelAll
    /\ sent' = Revoke([type |-> "cancelAll"])
    /\ UNCHANGED unit

\* the clock advances by one tick once the units have taken what is in their queues
\* and dispatched what is due
SchedTick ==
    /\ \/ \E c \in Calls : TimerPending(c)
       \/ UnitHolding
    /\ ~TimerDue
    /\ ~UnitBusy
    /\ TimersTick
    /\ UnitTick
    /\ sent' = [i \in DOMAIN sent |->
                   [sent[i] EXCEPT !.left = IF @ > 0 THEN @ - 1 ELSE 0]]
    /\ UNCHANGED <<last, sonicVars, codecVars, appVars, runVars>>

\* One bring-up, then sends and cancels to the outbound unit.
NextSched ==
    \/ numCalls = 0 /\ OscInit(RegionA) /\ UNCHANGED <<unitVars, callerVars, sonicVars, codecVars, appVars, runVars>>
    \/ \E c \in Calls, k \in KindSet :
          WorkerInitialized(c, k) /\ UNCHANGED <<unitVars, callerVars, sonicVars, codecVars, appVars, runVars>>
    \/ \E c \in Calls, k \in KindSet :
          InitTimeoutFires(c, k) /\ UNCHANGED <<unitVars, callerVars, sonicVars, codecVars, appVars, runVars>>
    \/ \E options \in SendOptions : CallSend(options) /\ UNCHANGED <<last, sonicVars, codecVars, appVars, runVars>>
    \/ \E e \in CancelEditors, t \in CancelTags :
          CallCancelEditorTag(e, t) /\ UNCHANGED <<last, sonicVars, codecVars, appVars, runVars>>
    \/ \E e \in CancelEditors : CallCancelEditor(e) /\ UNCHANGED <<last, sonicVars, codecVars, appVars, runVars>>
    \/ CallCancelAll /\ UNCHANGED <<last, sonicVars, codecVars, appVars, runVars>>
    \/ \E c \in Calls : UnitReceive(c) /\ UNCHANGED <<callerVars, sonicVars, codecVars, appVars, runVars>>
    \/ \E c \in Calls : UnitRelease(c) /\ UNCHANGED <<callerVars, sonicVars, codecVars, appVars, runVars>>
    \/ SchedTick

SpecSched == Init /\ [][NextSched]_vars

----------------------------------------------------------------------------
(* The SuperSonic facade: bring-up, the time offset, sendOSC, destroy *)

\* SECONDS_1900_TO_1970 = 2208988800 s, as a number of milliseconds
SECONDS_1900_TO_1970 == Num(1, 0)

\* 2208988800 = EpochHi * 65536 + EpochLo
EpochHi == 33706
EpochLo == 32384

\* "#bundle\0"
BundleHeader == <<35, 98, 117, 110, 100, 108, 101, 0>>

\* DataView.getUint32(offset, false): big-endian, kept as two 16-bit halves
GetUint32(bytes, offset) ==
    [hi |-> bytes[offset + 1] * 256 + bytes[offset + 2],
     lo |-> bytes[offset + 3] * 256 + bytes[offset + 4]]

\* ntpSeconds * 1e3
SecondsMs(u) ==
    IF u.hi >= EpochHi
    THEN Num(1, ((u.hi - EpochHi) * 65536 + u.lo - EpochLo) * 1000)
    ELSE Num(0, (u.hi * 65536 + u.lo) * 1000)

\* ntpFraction / 4294967296 * 1e3, to the millisecond below
FractionMs(u) == Ms((u.hi * 1000 + (u.lo * 1000) \div 65536) \div 65536)

\* mutant: only the time tag (0, 1) stands for 'now'
IsImmediate_one(ntpSeconds, ntpFraction) ==
    /\ ntpSeconds.hi = 0 /\ ntpSeconds.lo = 0
    /\ ntpFraction.hi = 0 /\ ntpFraction.lo = 1

\* ntpSeconds === 0 && (ntpFraction === 0 || ntpFraction === 1)   (line 1474)
IsImmediate(ntpSeconds, ntpFraction) ==
    /\ ntpSeconds.hi = 0 /\ ntpSeconds.lo = 0
    /\ ntpFraction.hi = 0 /\ ntpFraction.lo \in {0, 1}

\* a null offset in arithmetic counts as 0
OffsetOrZero(offset) == IF offset = NoOffset THEN Ms(0) ELSE offset[1]

\* mutant: a delay that would be negative is forwarded as 0
WaitTimeMs_clamped(uint8Data, wasmTimeOffset, currentTime) ==
    IF Len(uint8Data) >= 16 /\ SubSeq(uint8Data, 1, 8) = BundleHeader
    THEN LET ntpSeconds == GetUint32(uint8Data, 8)
             ntpFraction == GetUint32(uint8Data, 12)
             d == NumSub(NumSub(NumAdd(SecondsMs(ntpSeconds), FractionMs(ntpFraction)),
                                OffsetOrZero(wasmTimeOffset)),
                         Ms(currentTime + 50))
         IN IF IsImmediate(ntpSeconds, ntpFraction) THEN NullWait
            ELSE IF Positive(d) THEN <<d>> ELSE <<Ms(0)>>
    ELSE NullWait

\* waitTimeMs as sendOSC computes it (lines 1463-1482)
WaitTimeMs(uint8Data, wasmTimeOffset, currentTime) ==
    IF Len(uint8Data) >= 16 /\ SubSeq(uint8Data, 1, 8) = BundleHeader
    THEN LET ntpSeconds == GetUint32(uint8Data, 8)
             ntpFraction == GetUint32(uint8Data, 12)
             ntpTimeS == NumAdd(SecondsMs(ntpSeconds), FractionMs(ntpFraction))
             audioTimeS == NumSub(ntpTimeS, OffsetOrZero(wasmTimeOffset))
         IN IF IsImmediate(ntpSeconds, ntpFraction) THEN NullWait
            ELSE <<NumSub(audioTimeS, Ms(currentTime + 50))>>
    ELSE NullWait

\* SECONDS_1900_TO_1970 + Date.now() / 1e3 - audioContext.currentTime
TimeOffset(currentTime) == NumAdd(SECONDS_1900_TO_1970, Ms(wallClock - currentTime))

\* mutant: the offset resolves the promise but is not kept
calculateTimeOffset_unkept(s, currentTime) ==
    [s EXCEPT !.resolveTimeOffset = FALSE,
              !.timeOffsetPromise = IF s.resolveTimeOffset
                                    THEN <<TimeOffset(currentTime)>> ELSE @]

\* #calculateTimeOffset(): the object's fields after the call
calculateTimeOffset(s, currentTime) ==
    [s EXCEPT !.wasmTimeOffset = <<TimeOffset(currentTime)>>,
              !.resolveTimeOffset = FALSE,
              !.timeOffsetPromise = IF s.resolveTimeOffset
                                    THEN <<TimeOffset(currentTime)>> ELSE @]

\* SuperSonic.init() up to `await this.#loadWasm()`: a new AudioContext, which the
\* browser starts suspended or running (#initializeAudioContext)
SonicInit(state) ==
    /\ ~sonic.initialized
    /\ ~sonic.initializing
    /\ numCalls < MaxInits
    /\ audioContext' = [state |-> state, currentTime |-> 0]
    /\ LET s == [sonic EXCEPT !.initializing = TRUE,
                              !.resolveTimeOffset = TRUE, !.pc = "loading",
                              !.timeOffsetPromise = NoOffset, !.loadWasm = NoOffset,
                              !.settled = "none", !.thrown = <<>>,
                              !.again = "none", !.reported = 0]
       IN sonic' = IF state = "running" THEN calculateTimeOffset(s, 0) ELSE s
    /\ sampled' = IF state = "running" THEN <<TimeOffset(0)>> ELSE sampled
    /\ UNCHANGED <<oscVars, unitVars, runVars, codecVars, appVars, callerVars, wallClock>>

\* mutant: 'loadWasm' is posted without awaiting the offset promise
SonicLoaded_posts ==
    /\ sonic.pc = "loading"
    /\ sonic' = [sonic EXCEPT !.pc = "awaitWorklet",
                              !.loadWasm = IF sonic.timeOffsetPromise = NoOffset
                                           THEN <<Ms(0)>> ELSE sonic.timeOffsetPromise,
                              !.age = 0]
    /\ UNCHANGED <<oscVars, unitVars, runVars, codecVars, appVars, callerVars, audioContext, wallClock, sampled>>

\* the wasm is fetched and the worklet module added: #initializeAudioWorklet posts
\* 'init' and awaits the offset promise, then posts 'loadWasm' (lines 1213-1231)
SonicLoaded ==
    /\ sonic.pc = "loading"
    /\ sonic' = [sonic EXCEPT !.pc = IF sonic.timeOffsetPromise = NoOffset
                                     THEN "awaitOffset" ELSE "awaitWorklet",
                              !.loadWasm = sonic.timeOffsetPromise,
                              !.age = IF sonic.timeOffsetPromise = NoOffset
                                      THEN -1 ELSE 0]
    /\ UNCHANGED <<oscVars, unitVars, runVars, codecVars, appVars, callerVars, audioContext, wallClock, sampled>>

\* the observer #initializeOSC gives to osc.onError (lines 1249-1255): it counts
\* the error and passes it on to this.onError
OnOscError(s) == [s EXCEPT !.statErrors = @ + 1, !.reported = @ + 1]

\* the catch block of init() (lines 1297-1304): the flag is cleared, the error is
\* given to this.onError and thrown again
Caught(s, error) ==
    [s EXCEPT !.initializing = FALSE, !.pc = "idle", !.age = -1,
              !.reported = @ + 1, !.settled = "rejected", !.thrown = error]

\* the fetch fails, or the worklet reports an error or stays silent for 5 s: the
\* catch block of init() (lines 1297-1304)
SonicInitFails ==
    /\ sonic.pc \in {"loading", "awaitWorklet"}
    /\ sonic' = Caught(sonic, IF sonic.pc = "loading"
                              THEN <<"Failed to load WASM">>
                              ELSE <<"AudioWorklet error">>)
    /\ UNCHANGED <<oscVars, unitVars, runVars, codecVars, appVars, callerVars, audioContext, wallClock, sampled>>

\* the audio clock starts running: the 'statechange' listener (lines 1190-1194), and
\* the continuation of #initializeAudioWorklet when it resolves the offset promise
AudioResume ==
    /\ audioContext.state = "suspended"
    /\ audioContext' = [audioContext EXCEPT !.state = "running"]
    /\ sampled' = <<TimeOffset(audioContext.currentTime)>>
    /\ sonic' = IF sonic.resolveTimeOffset
                THEN LET s == calculateTimeOffset(sonic, audioContext.currentTime)
                     IN IF s.pc = "awaitOffset"
                        THEN [s EXCEPT !.pc = "awaitWorklet",
                                       !.loadWasm = s.timeOffsetPromise,
                                       !.age = 0]
                        ELSE s
                ELSE sonic
    /\ UNCHANGED <<oscVars, unitVars, runVars, codecVars, appVars, callerVars, wallClock>>

\* the audio clock is suspended: the listener does nothing for this state
AudioSuspend ==
    /\ audioContext.state = "running"
    /\ audioContext' = [audioContext EXCEPT !.state = "suspended"]
    /\ UNCHANGED <<oscVars, unitVars, runVars, codecVars, appVars, callerVars, sonic, wallClock, sampled>>

\* the worklet answers 'initialized' with success: #initializeOSC makes a new
\* ScsynthOSC (no handles, not initialized) and calls its init() (lines 1236-1257)
WorkletInitialized ==
    /\ sonic.pc = "awaitWorklet"
    /\ ~initialized
    /\ OscInit(RegionA)
    /\ sonic' = [sonic EXCEPT !.osc = TRUE, !.pc = "awaitOsc", !.age = -1]
    /\ UNCHANGED <<unitVars, runVars, codecVars, appVars, callerVars, audioContext, wallClock, sampled>>

\* a worker answers 'initialized'; when this settles osc.init(), init() goes on to
\* #finishInitialization (lines 1294-1296) or to its catch block
SonicWorkerInitialized(c, k) ==
    /\ WorkerInitialized(c, k)
    /\ sonic' = IF sonic.pc = "awaitOsc" /\ calls[c].state = "awaiting"
                THEN CASE calls'[c].state = "resolved" ->
                            [sonic EXCEPT !.initialized = TRUE, !.initializing = FALSE,
                                          !.pc = "idle", !.settled = "resolved"]
                       [] calls'[c].state = "rejected" ->
                            Caught(OnOscError(sonic), calls'[c].err)
                       [] OTHER -> sonic
                ELSE sonic
    /\ UNCHANGED <<unitVars, runVars, codecVars, appVars, callerVars, audioContext, wallClock, sampled>>

\* the payload has the length and the header of a bundle (lines 1464-1466)
IsBundle(uint8Data) ==
    Len(uint8Data) >= 16 /\ SubSeq(uint8Data, 1, 8) = BundleHeader

\* {...options, waitTimeMs}
WithWaitTime(options, waitTimeMs) ==
    [f \in DOMAIN options \cup {"waitTimeMs"} |->
        IF f = "waitTimeMs" THEN waitTimeMs ELSE options[f]]

\* SuperSonic.sendOSC(oscData, options), called as op ("send" comes through
\* SuperSonic.send, which has the same guard); observed counts the calls of
\* this.onMessageSent
SendOSCCall(op, oscData, options) ==
    /\ sonic.messagesSent < MaxSonicSends
    /\ IF ~sonic.initialized
       THEN /\ last' = [NoLast EXCEPT !.op = op, !.raised = TRUE, !.payload = oscData]
            /\ UNCHANGED <<oscVars, sonic>>
       ELSE LET now == audioContext.currentTime
                s == IF IsBundle(oscData) /\ sonic.wasmTimeOffset = NoOffset
                     THEN calculateTimeOffset(sonic, now)
                     ELSE sonic
                waitTimeMs == WaitTimeMs(oscData, s.wasmTimeOffset, now)
            IN /\ sonic' = [s EXCEPT !.messagesSent = @ + 1, !.observed = @ + 1]
               /\ IF sonic.osc
                  THEN OscSend(oscData, WithWaitTime(options, waitTimeMs))
                  ELSE UNCHANGED oscVars
               /\ last' = [op |-> op, ready |-> TRUE, raised |-> ~sonic.osc,
                           forwarded |-> TotalPosted(wk') - TotalPosted(wk),
                           payload |-> oscData, delay |-> waitTimeMs,
                           offset |-> s.wasmTimeOffset, now |-> now]
    /\ UNCHANGED <<unitVars, runVars, sent, audioContext, wallClock, sampled>>

SendOSC(op, oscData, options) ==
    SendOSCCall(op, oscData, options) /\ UNCHANGED <<codecVars, appVars>>

\* SuperSonic.send("/a")
SonicSend == SendOSC("send", Packet, <<>>)

\* SuperSonic.sendOSC(oscData, options)
SonicSendOSC(oscData, options) == SendOSC("sendOSC", oscData, options)

\* SuperSonic.destroy() up to `await this.audioContext.close()`, on a system that
\* init() has brought up
SonicDestroy ==
    /\ sonic.initialized
    /\ sonic.pc = "idle"
    /\ IF \E k \in KindSet : workers[k] # Null
       THEN OscTerminate
       ELSE UNCHANGED oscVars
    /\ sonic' = [sonic EXCEPT !.osc = FALSE, !.pc = "closing"]
    /\ UNCHANGED <<unitVars, runVars, codecVars, appVars, callerVars, audioContext, wallClock, sampled>>

\* the AudioContext has closed: the rest of destroy() (lines 1511-1514)
SonicClosed ==
    /\ sonic.pc = "closing"
    /\ audioContext' = NoContext
    /\ sonic' = [sonic EXCEPT !.initialized = FALSE, !.pc = "idle"]
    /\ UNCHANGED <<oscVars, unitVars, runVars, codecVars, appVars, callerVars, wallClock, sampled>>

\* one second passes; currentTime advances while the audio clock runs
SonicTick ==
    /\ audioContext # NoContext
    /\ wallClock < WallStart + MaxTicks * MsPerTick
    /\ wallClock' = wallClock + MsPerTick
    /\ audioContext' = [audioContext EXCEPT
                          !.currentTime = IF audioContext.state = "running"
                                          THEN @ + MsPerTick ELSE @]
    /\ UNCHANGED <<oscVars, unitVars, runVars, codecVars, appVars, callerVars, sonic, sampled>>

\* payloads: bundles with time tag (seconds, fraction), and packets that are not
\* bundles
Bundle(seconds, fraction) == BundleHeader \o seconds \o fraction

\* the bundle that the life-cycle specification sends, due at 1970-01-01 00:00:12.5
FutureBundle == Bundle(<<131, 170, 126, 140>>, <<128, 0, 0, 0>>)

Payloads ==
    { <<47, 110, 95, 102, 114, 101, 101, 0, 44, 105, 0, 0, 0, 0, 3, 232>>, \* /n_free 1000
      <<35, 98, 117, 110, 100, 108, 101, 115>> \o <<131, 170, 126, 140, 0, 0, 0, 0>>,
      BundleHeader \o <<131, 170, 126, 140>>,                   \* 12 bytes
      Bundle(<<0, 0, 0, 0>>, <<0, 0, 0, 0>>),
      Bundle(<<0, 0, 0, 0>>, <<0, 0, 0, 1>>),
      Bundle(<<0, 0, 0, 0>>, <<0, 0, 0, 2>>),
      Bundle(<<131, 170, 126, 138>>, <<0, 0, 0, 0>>),           \* 1970-01-01 00:00:10
      FutureBundle }

\* no options, and options that carry a waitTimeMs of their own
SonicOptions ==
    { <<>>, [editorId |-> 1, runTag |-> "x", waitTimeMs |-> <<Ms(1500)>>] }

\* The life cycle of the facade: bring-up, failure, suspension and resumption of the
\* audio clock, sends, shutdown and a further bring-up.  The workers acknowledge
\* within their 5 s.
NextSonic ==
    \/ \E state \in {"suspended", "running"} : SonicInit(state)
    \/ SonicLoaded
    \/ SonicInitFails
    \/ AudioResume
    \/ AudioSuspend
    \/ WorkletInitialized
    \/ \E c \in Calls, k \in KindSet : SonicWorkerInitialized(c, k)
    \/ SonicSend
    \/ \E options \in SonicOptions : SonicSendOSC(FutureBundle, options)
    \/ SonicDestroy
    \/ SonicClosed
    \/ SonicTick

SpecSonic == Init /\ [][NextSonic]_vars

\* One bring-up of the facade, then sendOSC() with every payload while the audio
\* clock runs, is suspended and resumed.
NextBundle ==
    \/ \E state \in {"suspended", "running"} : numCalls = 0 /\ SonicInit(state)
    \/ SonicLoaded
    \/ AudioResume
    \/ AudioSuspend
    \/ WorkletInitialized
    \/ \E c \in Calls, k \in KindSet : SonicWorkerInitialized(c, k)
    \/ SonicSend
    \/ \E oscData \in Payloads, options \in SonicOptions : SonicSendOSC(oscData, options)
    \/ SonicTick

SpecBundle == Init /\ [][NextBundle]_vars

----------------------------------------------------------------------------
(* ScsynthOSC.getStats *)

NumStats == Cardinality({n \in 1..MaxStats : stats[n].state # "none"})

\* Promise.all(statsPromises) resolves once the three waits have resolved
Settle(s) ==
    IF s.state = "pending" /\ \A k \in KindSet : s.result[k] # "pending"
    THEN [s EXCEPT !.state = "resolved", !.settledAt = s.age]
    ELSE s

\* ScsynthOSC.getStats() up to its await, with the three getWorkerStats calls: each
\* arms a 1 s timer, attaches a listener and posts 'getStats'.  On a null handle
\* the executor of getWorkerStats throws and the promise rejects.
OscGetStats ==
    /\ NumStats < MaxStats
    /\ LET n == NumStats + 1 IN
       IF ~initialized
       THEN /\ stats' = [stats EXCEPT ![n] = [NoStats EXCEPT !.state = "null"]]
            /\ wk' = wk
       ELSE IF \E k \in KindSet : workers[k] = Null
       THEN /\ stats' = [stats EXCEPT ![n] =
                           [NoStats EXCEPT !.state = "rejected", !.ready = TRUE]]
            /\ wk' = wk
       ELSE /\ stats' = [stats EXCEPT ![n] =
                           [NoStats EXCEPT !.state = "pending", !.ready = TRUE,
                                           !.on = workers,
                                           !.result = [k \in KindSet |-> "pending"],
                                           !.timer = [k \in KindSet |-> TRUE],
                                           !.listening = [k \in KindSet |-> TRUE]]]
            /\ wk' = Post(Post(Post(wk, workers["oscOut"], "oscOut", [type |-> "getStats"]),
                               workers["oscIn"], "oscIn", [type |-> "getStats"]),
                          workers["debug"], "debug", [type |-> "getStats"])
    /\ UNCHANGED <<workers, initialized, sharedRegion, calls, numCalls,
                   notified, readied, errors>>

\* worker (c, k) posts {type: 'stats'}: the handler of every getWorkerStats that
\* still listens on it runs (lines 238-244)
WorkerStats(c, k) ==
    /\ wk[c][k].alive
    /\ \E n \in 1..MaxStats : stats[n].listening[k] /\ stats[n].on[k] = c
    /\ stats' = [n \in 1..MaxStats |->
                    IF stats[n].listening[k] /\ stats[n].on[k] = c
                    THEN Settle([stats[n] EXCEPT
                                   !.listening[k] = FALSE,
                                   !.timer[k] = FALSE,
                                   !.result[k] = IF @ = "pending" THEN "stats" ELSE @])
                    ELSE stats[n]]
    /\ UNCHANGED oscVars

\* the timer of a getWorkerStats has run its delay
StatsDue(n, k) == stats[n].timer[k] /\ stats[n].age >= StatsTimeout

StatsTimerDue == \E n \in 1..MaxStats, k \in KindSet : StatsDue(n, k)

StatsTimerPending == \E n \in 1..MaxStats, k \in KindSet : stats[n].timer[k]

\* mutant: the timeout rejects the wait, and with it Promise.all
StatsTimeoutFires_rejects(n, k) ==
    /\ StatsDue(n, k)
    /\ stats' = [stats EXCEPT ![n] =
                    [@ EXCEPT !.timer[k] = FALSE,
                              !.result[k] = IF @ = "pending" THEN "timeout" ELSE @,
                              !.state = IF @ = "pending" THEN "rejected" ELSE @]]
    /\ UNCHANGED oscVars

\* the timer of getWorkerStats fires (lines 235-237): the wait resolves with the
\* timeout marker; the listener stays attached
StatsTimeoutFires(n, k) ==
    /\ StatsDue(n, k)
    /\ stats' = [stats EXCEPT ![n] =
                    Settle([@ EXCEPT !.timer[k] = FALSE,
                                     !.result[k] = IF @ = "pending" THEN "timeout" ELSE @])]
    /\ UNCHANGED oscVars

\* one second passes for the timers of the handshakes and of the stats waits
RunTick ==
    /\ \/ \E c \in Calls : TimerPending(c)
       \/ StatsTimerPending
    /\ ~TimerDue
    /\ ~StatsTimerDue
    /\ TimersTick
    /\ stats' = [n \in 1..MaxStats |->
                    IF \E k \in KindSet : stats[n].timer[k]
                    THEN [stats[n] EXCEPT !.age = @ + 1]
                    ELSE stats[n]]

\* One bring-up and shutdown of an orchestrator, with getStats() calls at any time
\* and workers that answer them or stay silent.
NextStats ==
    \/ /\ numCalls = 0 /\ OscInit(RegionA)
       /\ UNCHANGED <<unitVars, callerVars, sonicVars, codecVars, appVars, runVars>>
    \/ \E c \in Calls, k \in KindSet :
          WorkerInitialized(c, k) /\ UNCHANGED <<unitVars, callerVars, sonicVars, codecVars, appVars, runVars>>
    \/ \E c \in Calls, k \in KindSet :
          InitTimeoutFires(c, k) /\ UNCHANGED <<unitVars, callerVars, sonicVars, codecVars, appVars, runVars>>
    \/ OscTerminate /\ UNCHANGED <<unitVars, callerVars, sonicVars, codecVars, appVars, runVars>>
    \/ OscGetStats /\ UNCHANGED <<unitVars, callerVars, sonicVars, codecVars, appVars, inflight, produced, received>>
    \/ \E c \in Calls, k \in KindSet :
          WorkerStats(c, k)
          /\ UNCHANGED <<unitVars, callerVars, sonicVars, codecVars, appVars, inflight, produced, received>>
    \/ \E n \in 1..MaxStats, k \in KindSet :
          StatsTimeoutFires(n, k)
          /\ UNCHANGED <<unitVars, callerVars, sonicVars, codecVars, appVars, inflight, produced, received>>
    \/ RunTick /\ UNCHANGED <<unitVars, callerVars, sonicVars, codecVars, appVars, inflight, produced, received>>

SpecStats == Init /\ [][NextStats]_vars

----------------------------------------------------------------------------
(* Inbound routing: the onmessage handlers of setupWorkerHandlers *)

\* the event type a worker uses for its bursts, and the observer its handler calls
BurstType(k) == IF k = "oscIn" THEN "messages" ELSE "debug"
ObserverOf(k) == IF k = "oscIn" THEN "onOSCMessage" ELSE "onDebugMessage"

\* worker (c, k) decodes n messages and posts them in one event; the messages of a
\* worker are numbered in the order in which it produces them
WorkerProduces(c, k, n) ==
    /\ k \in {"oscIn", "debug"}
    /\ wk[c][k].alive
    /\ Len(produced[c][k]) + n <= MaxItems
    /\ LET first == Len(produced[c][k]) + 1
           burst == [i \in 1..n |-> first + i - 1]
       IN /\ produced' = [produced EXCEPT ![c][k] = @ \o burst]
          /\ inflight' = [inflight EXCEPT ![c][k] =
                             Append(@, [type |-> BurstType(k), messages |-> burst])]
    /\ UNCHANGED <<oscVars, stats, received>>

\* data.messages.forEach((msg) => callback(msg)): the invocations it adds.  Each is
\* noted with the worker it came from and the number of errors reported before it.
ForEach(c, messages) ==
    [i \in 1..Len(messages) |->
        [from |-> c, item |-> messages[i], after |-> Len(errors)]]

\* mutant: the burst is handed over last message first
Deliver_lastFirst(c, k) ==
    /\ wk[c][k].alive
    /\ inflight[c][k] # <<>>
    /\ LET data == Head(inflight[c][k])
           n == Len(data.messages)
           reversed == [i \in 1..n |-> data.messages[n + 1 - i]]
       IN received' = IF k \in {"oscIn", "debug"} /\ data.type = BurstType(k)
                      THEN [received EXCEPT ![ObserverOf(k)] = @ \o ForEach(c, reversed)]
                      ELSE received
    /\ inflight' = [inflight EXCEPT ![c][k] = Tail(@)]
    /\ UNCHANGED <<oscVars, stats, produced>>

\* the next event of worker (c, k) reaches the page: its onmessage handler
\* (lines 84-119) calls the observer once for each message of the burst
Deliver(c, k) ==
    /\ wk[c][k].alive
    /\ inflight[c][k] # <<>>
    /\ LET data == Head(inflight[c][k])
       IN received' = IF k \in {"oscIn", "debug"} /\ data.type = BurstType(k)
                      THEN [received EXCEPT ![ObserverOf(k)] = @ \o ForEach(c, data.messages)]
                      ELSE received
    /\ inflight' = [inflight EXCEPT ![c][k] = Tail(@)]
    /\ UNCHANGED <<oscVars, stats, produced>>

\* the requests of the application in the queues of the outbound workers
RequestTypes == {"send", "sendImmediate"} \cup CancelTypes

NumRequests ==
    LET n(c) == Cardinality({i \in DOMAIN Outbox(c) : Outbox(c)[i].type \in RequestTypes})
        RECURSIVE sum(_)
        sum(c) == IF c = 0 THEN 0 ELSE n(c) + sum(c - 1)
    IN sum(MaxInits)

\* One bring-up and shutdown of an orchestrator whose inbound and diagnostic
\* workers produce bursts of messages.  The workers acknowledge within their 5 s.
NextInbound ==
    \/ /\ numCalls = 0 /\ OscInit(RegionA)
       /\ UNCHANGED <<unitVars, callerVars, sonicVars, codecVars, appVars, runVars>>
    \/ \E c \in Calls, k \in KindSet :
          WorkerInitialized(c, k) /\ UNCHANGED <<unitVars, callerVars, sonicVars, codecVars, appVars, runVars>>
    \/ \E c \in Calls, k \in KindSet, n \in 1..MaxBurst :
          WorkerProduces(c, k, n) /\ UNCHANGED <<unitVars, callerVars, sonicVars, codecVars, appVars>>
    \/ \E c \in Calls, k \in KindSet :
          Deliver(c, k) /\ UNCHANGED <<unitVars, callerVars, sonicVars, codecVars, appVars>>
    \/ OscTerminate /\ UNCHANGED <<unitVars, callerVars, sonicVars, codecVars, appVars, runVars>>

SpecInbound == Init /\ [][NextInbound]_vars

\* the call of the application that has just returned: its name, whether the
\* orchestrator was ready, and the number of requests it posted to the workers
Called(op) ==
    last' = [NoLast EXCEPT !.op = op, !.ready = initialized,
                           !.forwarded = TotalPosted(wk') - TotalPosted(wk)]

\* the options of the sends of the running orchestrator
RunOptions == { [editorId |-> 1, runTag |-> "x"] }

\* One bring-up and shutdown of an orchestrator; at any time the application sends
\* and cancels, the workers report errors, and the inbound worker delivers single
\* messages.  The workers acknowledge within their 5 s.
NextRun ==
    \/ /\ numCalls = 0 /\ OscInit(RegionA)
       /\ UNCHANGED <<unitVars, callerVars, sonicVars, codecVars, appVars, runVars>>
    \/ \E c \in Calls, k \in KindSet :
          WorkerInitialized(c, k) /\ UNCHANGED <<unitVars, callerVars, sonicVars, codecVars, appVars, runVars>>
    \/ \E c \in Calls, k \in KindSet :
          WorkerError(c, k) /\ UNCHANGED <<unitVars, callerVars, sonicVars, codecVars, appVars, runVars>>
    \/ \E c \in Calls :
          WorkerProduces(c, "oscIn", 1) /\ UNCHANGED <<unitVars, callerVars, sonicVars, codecVars, appVars>>
    \/ \E c \in Calls :
          Deliver(c, "oscIn") /\ UNCHANGED <<unitVars, callerVars, sonicVars, codecVars, appVars>>
    \/ \E options \in RunOptions :
          /\ NumRequests < MaxSends
          /\ CallSend(options)
          /\ Called("send")
          /\ UNCHANGED <<sonicVars, codecVars, appVars, runVars>>
    \/ /\ NumRequests < MaxSends
       /\ OscSendImmediate(Packet)
       /\ Called("sendImmediate")
       /\ UNCHANGED <<unitVars, sent, sonicVars, codecVars, appVars, runVars>>
    \/ /\ NumRequests < MaxSends
       /\ CallCancelAll
       /\ Called("cancelAll")
       /\ UNCHANGED <<sonicVars, codecVars, appVars, runVars>>
    \/ /\ OscTerminate
       /\ Called("terminate")
       /\ UNCHANGED <<unitVars, sent, sonicVars, codecVars, appVars, runVars>>

SpecRun == Init /\ [][NextRun]_vars

----------------------------------------------------------------------------
(* The OSC codec (js/vendor/osc.js): writePacket and readPacket, on byte        *)
(* sequences.  Strings are sequences of ASCII codes; a thrown Error is a record *)
(* with the field error; a reader returns its value and the offset after it.    *)

\* throw new Error(message)
Throw(message) == [error |-> message]

Thrown(r) == "error" \in DOMAIN r

\* the JavaScript values an argument can be: a number, a string, a boolean, an
\* array of arguments, or the object {type, value}
JsNumber(n) == [kind |-> "number", value |-> n]

JsString(s) == [kind |-> "string", value |-> s]

JsBoolean(b) == [kind |-> "boolean", value |-> b]

JsArray(a) == [kind |-> "array", value |-> a]

Annotated(type, value) == [kind |-> "object", type |-> type, value |-> value]

\* "x".charCodeAt(0) for the characters of type tag strings
CharCodeAt(ch) ==
    CASE ch = "," -> 44
      [] ch = "[" -> 91
      [] ch = "]" -> 93
      [] ch = "i" -> 105
      [] ch = "f" -> 102
      [] ch = "s" -> 115
      [] ch = "T" -> 84
      [] ch = "F" -> 70
      [] ch = "h" -> 104
      [] ch = "d" -> 100
      [] ch = "S" -> 83
      [] ch = "b" -> 98
      [] ch = "t" -> 116
      [] ch = "N" -> 78
      [] ch = "I" -> 73
      [] ch = "c" -> 99
      [] ch = "r" -> 114
      [] ch = "m" -> 109
      [] ch = "x" -> 120

\* String.fromCharCode(code), for the same characters; "?" is any other one
FromCharCode(code) ==
    CASE code = 44 -> ","
      [] code = 91 -> "["
      [] code = 93 -> "]"
      [] code = 105 -> "i"
      [] code = 102 -> "f"
      [] code = 115 -> "s"
      [] code = 84 -> "T"
      [] code = 70 -> "F"
      [] code = 104 -> "h"
      [] code = 100 -> "d"
      [] code = 83 -> "S"
      [] code = 98 -> "b"
      [] code = 116 -> "t"
      [] code = 78 -> "N"
      [] code = 73 -> "I"
      [] code = 99 -> "c"
      [] code = 114 -> "r"
      [] code = 109 -> "m"
      [] code = 120 -> "x"
      [] OTHER -> "?"

\* new Uint8Array(n)
Zeros(n) == [i \in 1..n |-> 0]

\* the sequences of a sequence of sequences, joined (osc.joinParts)
RECURSIVE joinParts(_)
joinParts(parts) ==
    IF parts = <<>> THEN <<>> ELSE Head(parts) \o joinParts(Tail(parts))

\* osc.writeString(str): the characters, a NUL, and NULs up to a multiple of 4
writeString(str) ==
    LET len == Len(str) + 1
        paddedLen == ((len + 3) \div 4) * 4
    IN str \o Zeros(paddedLen - Len(str))

\* the offset of the first NUL at or after idx, or the length of the data
RECURSIVE EndOfString(_, _)
EndOfString(data, idx) ==
    IF idx >= Len(data) THEN idx
    ELSE IF data[idx + 1] = 0 THEN idx
    ELSE EndOfString(data, idx + 1)

\* osc.readString(dv, offsetState)
readString(data, idx) ==
    LET end == EndOfString(data, idx)
        next == IF end < Len(data) THEN end + 1 ELSE end
    IN [val |-> SubSeq(data, idx + 1, end), idx |-> ((next + 3) \div 4) * 4]

\* DataView.setInt32(0, val, false) of a number given as the two 16-bit halves of
\* its low 32 bits
SetInt32(u) == <<(u.hi \div 256) % 256, u.hi % 256, u.lo \div 256, u.lo % 256>>

\* the low 32 bits of an integer (ToInt32), as two 16-bit halves
ToInt32(val) == [hi |-> (val \div 65536) % 65536, lo |-> val % 65536]

\* osc.writeInt32(val)
writeInt32(val) == SetInt32(ToInt32(val))

\* DataView.getInt32(offset, false)
GetInt32(data, offset) ==
    (IF data[offset + 1] >= 128 THEN data[offset + 1] - 256 ELSE data[offset + 1])
        * 16777216
    + data[offset + 2] * 65536 + data[offset + 3] * 256 + data[offset + 4]

\* osc.readPrimitive: a read past the end of the data raises a RangeError
readPrimitive(data, value, numBytes, idx) ==
    IF idx + numBytes > Len(data) THEN Throw("RangeError")
    ELSE [val |-> value, idx |-> idx + numBytes]

\* osc.readInt32(dv, offsetState)
readInt32(data, idx) ==
    readPrimitive(data, IF idx + 4 > Len(data) THEN 0 ELSE GetInt32(data, idx), 4, idx)

\* the position of the leading bit of n
RECURSIVE Log2(_)
Log2(n) == IF n < 2 THEN 0 ELSE 1 + Log2(n \div 2)

\* osc.writeFloat32(val), DataView.setFloat32: sign, biased exponent and 23 bits
\* of fraction; for whole numbers below 2^24 in size
writeFloat32(val) ==
    IF val = 0 THEN Zeros(4)
    ELSE LET sign == IF val < 0 THEN 1 ELSE 0
             size == IF val < 0 THEN -val ELSE val
             exponent == Log2(size)
             fraction == (size - 2^exponent) * 2^(23 - exponent)
             biased == exponent + 127
         IN << sign * 128 + biased \div 2,
               (biased % 2) * 128 + fraction \div 65536,
               (fraction \div 256) % 256,
               fraction % 256 >>

\* DataView.getFloat32(offset, false), to the whole number below (in size)
GetFloat32(data, offset) ==
    LET sign == data[offset + 1] \div 128
        biased == (data[offset + 1] % 128) * 2 + data[offset + 2] \div 128
        fraction == (data[offset + 2] % 128) * 65536
                        + data[offset + 3] * 256 + data[offset + 4]
        exponent == biased - 127
        size == IF exponent < 0 \/ exponent > 23 THEN 0
                ELSE (8388608 + fraction) \div 2^(23 - exponent)
    IN IF sign = 1 THEN -size ELSE size

\* osc.readFloat32(dv, offsetState)
readFloat32(data, idx) ==
    readPrimitive(data, IF idx + 4 > Len(data) THEN 0 ELSE GetFloat32(data, idx), 4, idx)

\* what frac / 4294967296 * 1e3 has below the millisecond, in 2^-32 ms: the low
\* 32 bits of frac * 1000, as two halves
FractionSub(u) ==
    LET low == u.lo * 1000
        high == u.hi * 1000 + low \div 65536
    IN [hi |-> high % 65536, lo |-> low % 65536]

\* osc.ntpToJSTime(secs1900, frac): the milliseconds, and in sub what is below
\* the millisecond
ntpToJSTime(secs1900, frac) ==
    LET whole == NumSub(NumAdd(SecondsMs(secs1900), FractionMs(frac)),
                        SECONDS_1900_TO_1970)
    IN [epochs |-> whole.epochs, ms |-> whole.ms, sub |-> FractionSub(frac)]

\* osc.jsToNTPTime(jsTime), for a time from 1970 on given as its milliseconds and
\* what it has below the millisecond: the seconds plus SECS_70YRS, and
\* Math.round(TWO_32 * secsFrac), which is 4294967296 (hi = 65536) when secsFrac
\* is within 2^-33 of 1; both as two halves
jsToNTPTime(jsTime) ==
    LET secsWhole == jsTime.ms \div 1000
        high == (jsTime.ms % 1000) * 65536 + jsTime.sub.hi
        low == (high % 1000) * 65536 + jsTime.sub.lo
        rounded == low \div 1000 + (IF 2 * (low % 1000) >= 1000 THEN 1 ELSE 0)
        ntpSecs == [hi |-> EpochHi + (EpochLo + secsWhole) \div 65536,
                    lo |-> (EpochLo + secsWhole) % 65536]
        ntpFracs == [hi |-> high \div 1000 + rounded \div 65536,
                     lo |-> rounded % 65536]
    IN <<ntpSecs, ntpFracs>>

\* osc.readTimeTag(dv, offsetState): the raw pair, and the native time, which is
\* Date.now() for the pair (0, 1)
readTimeTag(data, idx) ==
    IF idx + 8 > Len(data) THEN Throw("RangeError")
    ELSE LET secs1900 == GetUint32(data, idx)
             frac == GetUint32(data, idx + 4)
         IN [val |-> [raw |-> <<secs1900, frac>>,
                      native |-> IF secs1900 = ToInt32(0) /\ frac = ToInt32(1)
                                 THEN Ms(wallClock)
                                 ELSE ntpToJSTime(secs1900, frac)],
             idx |-> idx + 8]

\* osc.writeTimeTag(timeTag): the raw pair, or the pair made of native
writeTimeTag(timeTag) ==
    LET raw == IF "raw" \in DOMAIN timeTag THEN timeTag.raw
               ELSE jsToNTPTime(timeTag.native)
    IN SetInt32(raw[1]) \o SetInt32(raw[2])

\* osc.readInt64(dv, offsetState), without osc.Long: {high, low, unsigned}
readInt64(data, idx) ==
    IF idx + 8 > Len(data) THEN Throw("RangeError")
    ELSE [val |-> [high |-> GetInt32(data, idx), low |-> GetInt32(data, idx + 4),
                   unsigned |-> FALSE],
          idx |-> idx + 8]

\* osc.writeInt64(val)
writeInt64(val) == writeInt32(val.high) \o writeInt32(val.low)

\* DataView.getFloat64(offset, false), to the whole number below (in size), for
\* sizes below 2^20: sign, 11 bits of biased exponent, 52 bits of fraction
GetFloat64(data, offset) ==
    LET sign == data[offset + 1] \div 128
        biased == (data[offset + 1] % 128) * 16 + data[offset + 2] \div 16
        fraction == (data[offset + 2] % 16) * 65536
                        + data[offset + 3] * 256 + data[offset + 4]
        exponent == biased - 1023
        size == IF exponent < 0 \/ exponent > 20 THEN 0
                ELSE (1048576 + fraction) \div 2^(20 - exponent)
    IN IF sign = 1 THEN -size ELSE size

\* osc.readFloat64(dv, offsetState)
readFloat64(data, idx) ==
    readPrimitive(data, IF idx + 8 > Len(data) THEN 0 ELSE GetFloat64(data, idx), 8, idx)

\* osc.writeFloat64(val), DataView.setFloat64, for whole numbers below 2^20 in size
writeFloat64(val) ==
    IF val = 0 THEN Zeros(8)
    ELSE LET sign == IF val < 0 THEN 1 ELSE 0
             size == IF val < 0 THEN -val ELSE val
             exponent == Log2(size)
             fraction == (size - 2^exponent) * 2^(20 - exponent)
             biased == exponent + 1023
         IN << sign * 128 + biased \div 16,
               (biased % 16) * 16 + fraction \div 65536,
               (fraction \div 256) % 256,
               fraction % 256 >> \o Zeros(4)

\* osc.readChar32(dv, offsetState): String.fromCharCode of the uint32 read, which
\* keeps its low 16 bits
readChar32(data, idx) ==
    readPrimitive(data, IF idx + 4 > Len(data) THEN <<>>
                        ELSE <<GetUint32(data, idx).lo>>, 4, idx)

\* osc.writeChar32(str): the code of the first character (NaN, written as 0, when
\* there is none)
writeChar32(str) == IF str = <<>> THEN Zeros(4) ELSE writeInt32(str[1])

\* len + 3 & ~3
PaddedLen(len) == ((len + 3) \div 4) * 4

\* a readBlob that advances by the length of the blob, without its padding
readBlob_unpadded(data, idx) ==
    LET len == readInt32(data, idx)
    IN IF Thrown(len) THEN len
       ELSE IF len.val < 0 \/ len.idx + len.val > Len(data) THEN Throw("RangeError")
       ELSE [val |-> SubSeq(data, len.idx + 1, len.idx + len.val),
             idx |-> len.idx + len.val]

\* osc.readBlob(dv, offsetState): new Uint8Array(buffer, idx, len) raises a
\* RangeError for a length below 0 or beyond the buffer
readBlob(data, idx) ==
    LET len == readInt32(data, idx)
    IN IF Thrown(len) THEN len
       ELSE IF len.val < 0 \/ len.idx + len.val > Len(data) THEN Throw("RangeError")
       ELSE [val |-> SubSeq(data, len.idx + 1, len.idx + len.val),
             idx |-> len.idx + PaddedLen(len.val)]

\* osc.writeBlob(data)
writeBlob(data) ==
    writeInt32(Len(data)) \o data \o Zeros(PaddedLen(Len(data)) - Len(data))

\* osc.readMIDIBytes(dv, offsetState)
readMIDIBytes(data, idx) ==
    IF idx + 4 > Len(data) THEN Throw("RangeError")
    ELSE [val |-> SubSeq(data, idx + 1, idx + 4), idx |-> idx + 4]

\* osc.writeMIDIBytes(bytes), of four bytes
writeMIDIBytes(bytes) == bytes

\* osc.readColor(dv, offsetState): a is bytes[3] / 255, kept as the pair
readColor(data, idx) ==
    IF idx + 4 > Len(data) THEN Throw("RangeError")
    ELSE [val |-> [r |-> data[idx + 1], g |-> data[idx + 2], b |-> data[idx + 3],
                   a |-> <<data[idx + 4], 255>>],
          idx |-> idx + 4]

\* osc.writeColor(color): Math.round(color.a * 255) of an a that is n / 255
writeColor(color) == <<color.r, color.g, color.b, color.a[1]>>

\* osc.argumentTypes: the tags with a reader (T, F, N and I have no writer)
argumentTypes ==
    {"i", "h", "f", "s", "S", "b", "t", "T", "F", "N", "I", "d", "c", "r", "m"}

\* the reader of an argument type, called
Reader(argType, data, idx) ==
    CASE argType = "i" -> readInt32(data, idx)
      [] argType = "h" -> readInt64(data, idx)
      [] argType = "f" -> readFloat32(data, idx)
      [] argType \in {"s", "S"} -> readString(data, idx)
      [] argType = "b" -> readBlob(data, idx)
      [] argType = "t" -> readTimeTag(data, idx)
      [] argType = "T" -> [val |-> TRUE, idx |-> idx]
      [] argType = "F" -> [val |-> FALSE, idx |-> idx]
      [] argType = "N" -> [val |-> "null", idx |-> idx]
      [] argType = "I" -> [val |-> 1, idx |-> idx]
      [] argType = "d" -> readFloat64(data, idx)
      [] argType = "c" -> readChar32(data, idx)
      [] argType = "r" -> readColor(data, idx)
      [] argType = "m" -> readMIDIBytes(data, idx)

\* the JavaScript value a reader returns
Plain(argType, value) ==
    CASE argType \in {"i", "f", "d", "I"} -> JsNumber(value)
      [] argType \in {"s", "S", "c"} -> JsString(value)
      [] argType \in {"T", "F"} -> JsBoolean(value)
      [] argType = "N" -> [kind |-> "null"]
      [] argType \in {"b", "m"} -> [kind |-> "bytes", value |-> value]
      [] argType = "h" -> [kind |-> "long", value |-> value]
      [] argType = "t" -> [kind |-> "timeTag", value |-> value]
      [] argType = "r" -> [kind |-> "color", value |-> value]

\* osc.readArgument(argType, typeTagString, dv, options, offsetState)
readArgument(argType, data, options, idx) ==
    IF argType \notin argumentTypes THEN Throw("not a valid OSC type tag")
    ELSE LET arg == Reader(argType, data, idx)
         IN IF Thrown(arg) THEN arg
            ELSE [val |-> IF options.metadata THEN Annotated(argType, arg.val)
                          ELSE Plain(argType, arg.val),
                  idx |-> arg.idx]

\* argTypes.indexOf(ch), -1 when absent
IndexOf(argTypes, ch) ==
    IF \E i \in DOMAIN argTypes : argTypes[i] = ch
    THEN (CHOOSE i \in DOMAIN argTypes :
             argTypes[i] = ch /\ \A j \in 1..(i - 1) : argTypes[j] # ch) - 1
    ELSE -1

\* the while loop of osc.readArgumentsIntoArray from position i on, arr being
\* the array filled so far
RECURSIVE ReadFrom(_, _, _, _, _, _)
ReadFrom(arr, argTypes, i, data, options, idx) ==
    IF i >= Len(argTypes) THEN [val |-> arr, idx |-> idx]
    ELSE IF argTypes[i + 1] = "["
    THEN LET fromArrayOpen == SubSeq(argTypes, i + 2, Len(argTypes))
             endArrayIdx == IndexOf(fromArrayOpen, "]")
             typesInArray == SubSeq(fromArrayOpen, 1, endArrayIdx)
             arg == ReadFrom(<<>>, typesInArray, 0, data, options, idx)
         IN IF endArrayIdx < 0
            THEN Throw("an open array type tag ('[') was found without a matching close array tag")
            ELSE IF Thrown(arg) THEN arg
            ELSE ReadFrom(Append(arr, JsArray(arg.val)), argTypes,
                          i + endArrayIdx + 2, data, options, arg.idx)
    ELSE LET arg == readArgument(argTypes[i + 1], data, options, idx)
         IN IF Thrown(arg) THEN arg
            ELSE ReadFrom(Append(arr, arg.val), argTypes, i + 1, data, options, arg.idx)

\* osc.readArgumentsIntoArray(arr, argTypes, typeTagString, dv, options, offsetState)
readArgumentsIntoArray(arr, argTypes, data, options, idx) ==
    ReadFrom(arr, argTypes, 0, data, options, idx)

\* throw new Error(message), with the idx that the offsetState has by then
ThrowAt(message, idx) == [error |-> message, idx |-> idx]

\* osc.readArguments(dv, options, offsetState)
readArguments(data, options, idx) ==
    LET typeTagString == readString(data, idx)
        argTypes == [i \in 1..(Len(typeTagString.val) - 1) |->
                        FromCharCode(typeTagString.val[i + 1])]
    IN IF typeTagString.val = <<>> \/ typeTagString.val[1] # CharCodeAt(",")
       THEN ThrowAt("A malformed type tag string was found", typeTagString.idx)
       ELSE readArgumentsIntoArray(<<>>, argTypes, data, options, typeTagString.idx)

\* osc.readMessageContents(address, dv, options, offsetState)
readMessageContents(address, data, options, idx) ==
    IF address = <<>> \/ address[1] # 47
    THEN ThrowAt("A malformed OSC address was found", idx)
    ELSE LET args == readArguments(data, options, idx)
         IN IF Thrown(args) THEN args
            ELSE [val |-> [address |-> address,
                           args |-> IF Len(args.val) = 1 /\ options.unpackSingleArgs
                                    THEN args.val[1] ELSE args.val],
                  idx |-> args.idx]

RECURSIVE readPacket(_, _, _, _)

\* the while loop of osc.readBundleContents, packets being those read so far
RECURSIVE ReadPackets(_, _, _, _, _)
ReadPackets(packets, data, options, idx, len) ==
    IF idx >= len THEN [val |-> packets, idx |-> idx]
    ELSE LET packetSize == readInt32(data, idx)
             packetLen == packetSize.idx + packetSize.val
             packet == readPacket(data, options, packetSize.idx, packetLen)
         IN IF Thrown(packetSize) THEN packetSize
            ELSE IF Thrown(packet) THEN packet
            ELSE ReadPackets(Append(packets, packet.val), data, options, packet.idx, len)

\* osc.readBundleContents(dv, options, offsetState, len)
readBundleContents(data, options, idx, len) ==
    LET timeTag == readTimeTag(data, idx)
        packets == ReadPackets(<<>>, data, options, timeTag.idx, len)
    IN IF Thrown(timeTag) THEN timeTag
       ELSE IF Thrown(packets) THEN packets
       ELSE [val |-> [timeTag |-> timeTag.val, packets |-> packets.val],
             idx |-> packets.idx]

\* osc.readPacket(data, options, offsetState, len)
readPacket(data, options, idx, len) ==
    LET header == readString(data, idx)
    IN IF header.val # <<>> /\ header.val[1] = 35
       THEN readBundleContents(data, options, header.idx, len)
       ELSE IF header.val # <<>> /\ header.val[1] = 47
       THEN readMessageContents(header.val, data, options, header.idx)
       ELSE Throw("The header of an OSC packet didn't contain an OSC address or a #bundle string")

\* osc.readMessage(data, options, offsetState), offsetState = {idx}
readMessage(data, options, idx) ==
    LET address == readString(data, idx)
    IN readMessageContents(address.val, data, options, address.idx)

\* osc.inferTypeForArgument(arg)
inferTypeForArgument(arg) ==
    CASE arg.kind = "boolean" -> IF arg.value THEN "T" ELSE "F"
      [] arg.kind = "string" -> "s"
      [] arg.kind = "number" -> "f"
      [] arg.kind = "undefined" -> "N"
      [] arg.kind = "null" -> "N"
      [] arg.kind = "bytes" -> "b"
      [] arg.kind = "long" -> "h"

\* osc.inferTypeForArgument(arg) throws: the typeof of arg is none of the cases,
\* or it is an object that is neither null, nor bytes, nor {high, low}
inferTypeForArgumentThrows(arg) ==
    arg.kind \notin {"boolean", "string", "number", "undefined", "null", "bytes", "long"}

\* osc.annotateArguments(args) throws: arg.type of a null is a TypeError, and the
\* Error of inferTypeForArgument is not caught
RECURSIVE annotateArgumentsThrows(_)
annotateArgumentsThrows(args) ==
    \E i \in 1..Len(args) :
        \/ args[i].kind = "null"
        \/ args[i].kind = "array" /\ annotateArgumentsThrows(args[i].value)
        \/ args[i].kind \notin {"object", "array"} /\ inferTypeForArgumentThrows(args[i])

\* the value of {type, value} made for arg: the value itself
ValueOf(arg) ==
    IF "half" \in DOMAIN arg THEN [whole |-> arg.value, half |-> TRUE]
    ELSE IF "value" \in DOMAIN arg THEN arg.value
    ELSE arg.kind

\* osc.annotateArguments(args)
RECURSIVE annotateArguments(_)
annotateArguments(args) ==
    [i \in 1..Len(args) |->
        IF args[i].kind = "object" THEN args[i]
        ELSE IF args[i].kind = "array" THEN JsArray(annotateArguments(args[i].value))
        ELSE Annotated(inferTypeForArgument(args[i]), ValueOf(args[i]))]

\* the writer of an argument type, called; T, F, N and I have none
Writer(type, value) ==
    CASE type = "i" -> writeInt32(value)
      [] type = "h" -> writeInt64(value)
      [] type = "f" -> writeFloat32(value)
      [] type \in {"s", "S"} -> writeString(value)
      [] type = "b" -> writeBlob(value)
      [] type = "t" -> writeTimeTag(value)
      [] type = "d" -> writeFloat64(value)
      [] type = "c" -> writeChar32(value)
      [] type = "r" -> writeColor(value)
      [] type = "m" -> writeMIDIBytes(value)
      [] OTHER -> <<>>

RECURSIVE writeArgument(_)

\* osc.writeArrayArguments(args, dataCollection): the type tags and the data parts
writeArrayArguments(args) ==
    LET written == [i \in 1..Len(args) |-> writeArgument(args[i])]
    IN [typeTag |-> <<"[">> \o joinParts([i \in 1..Len(args) |-> written[i].typeTag])
                       \o <<"]">>,
        parts |-> joinParts([i \in 1..Len(args) |-> written[i].parts])]

\* osc.writeArgument(arg, dataCollection)
writeArgument(arg) ==
    IF arg.kind = "array" THEN writeArrayArguments(arg.value)
    ELSE [typeTag |-> <<arg.type>>, parts |-> Writer(arg.type, arg.value)]

\* osc.collectArguments(args, options, dataCollection): the type tag string, then
\* the data of the arguments
collectArguments(args, options) ==
    LET annotated == IF ~options.metadata THEN annotateArguments(args) ELSE args
        written == [i \in 1..Len(annotated) |-> writeArgument(annotated[i])]
        typeTagString == <<",">> \o joinParts([i \in 1..Len(annotated) |-> written[i].typeTag])
        typeData == writeString([i \in 1..Len(typeTagString) |-> CharCodeAt(typeTagString[i])])
    IN typeData \o joinParts([i \in 1..Len(annotated) |-> written[i].parts])

\* osc.isValidMessage(msg)
isValidMessage(msg) ==
    /\ "address" \in DOMAIN msg
    /\ msg.address # <<>>
    /\ msg.address[1] = 47

\* osc.isValidBundle(bundle)
isValidBundle(bundle) == {"timeTag", "packets"} \subseteq DOMAIN bundle

\* osc.collectMessageParts(msg, options, dataCollection)
collectMessageParts(msg, options) ==
    writeString(msg.address) \o collectArguments(msg.args, options)

\* packet.address ? ... : ... in osc.collectBundlePackets: an address that is
\* neither undefined nor the empty string
HasAddress(packet) == "address" \in DOMAIN packet /\ packet.address # <<>>

\* osc.collectBundlePackets(bundle, options, dataCollection): the dataCollection,
\* or the TypeError of reading timeTag.raw or packets.length of undefined; an
\* element with an address is collected as a message, any other as a bundle, and
\* neither is validated
RECURSIVE collectBundlePackets(_, _)
collectBundlePackets(bundle, options) ==
    IF "timeTag" \notin DOMAIN bundle \/ "packets" \notin DOMAIN bundle
    THEN Throw("TypeError")
    ELSE LET collected == [i \in 1..Len(bundle.packets) |->
                IF HasAddress(bundle.packets[i])
                THEN [parts |-> collectMessageParts(bundle.packets[i], options)]
                ELSE collectBundlePackets(bundle.packets[i], options)]
         IN IF \E i \in 1..Len(bundle.packets) : Thrown(collected[i])
            THEN Throw("TypeError")
            ELSE [parts |->
                    writeString(<<35, 98, 117, 110, 100, 108, 101>>)
                      \o writeTimeTag(bundle.timeTag)
                      \o joinParts([i \in 1..Len(bundle.packets) |->
                             writeInt32(Len(collected[i].parts)) \o collected[i].parts])]

\* osc.writePacket(packet, options) throws: the packet is neither a valid message
\* nor a valid bundle, or collecting the packets of the bundle threw
writePacketThrows(packet, options) ==
    /\ ~isValidMessage(packet)
    /\ ~isValidBundle(packet) \/ Thrown(collectBundlePackets(packet, options))

\* osc.writeMessage(msg, options) and osc.writeBundle(bundle, options), chosen by
\* osc.writePacket(packet, options): the bytes, or the Error thrown
writePacket(packet, options) ==
    IF isValidMessage(packet) THEN collectMessageParts(packet, options)
    ELSE IF isValidBundle(packet)
    THEN LET bundleCollection == collectBundlePackets(packet, options)
         IN IF Thrown(bundleCollection) THEN bundleCollection
            ELSE bundleCollection.parts
    ELSE Throw("The specified packet was not recognized as a valid OSC message or bundle")

\* osc.defaults
defaults == [metadata |-> FALSE, unpackSingleArgs |-> TRUE]

\* SuperSonic.osc.encode(message)
encode(message) == writePacket(message, defaults)

\* SuperSonic.osc.decode(data, options), options being {metadata: ...}: the packet
\* read, or the Error thrown
decode(data, metadata) ==
    LET packet == readPacket(data, [metadata |-> metadata, unpackSingleArgs |-> FALSE],
                             0, Len(data))
    IN IF Thrown(packet) THEN packet ELSE packet.val

\* Packets to encode: messages to "/a" whose arguments are a list of up to
\* MaxArgs scalars, put into MaxDepth levels of arrays, given either as plain
\* values or as {type, value} objects; and bundles of them.
PlainScalars == {JsNumber(1), JsNumber(-2), JsString(<<97, 98, 99, 100>>), JsBoolean(TRUE)}

AnnotatedScalars ==
    {Annotated("i", -1), Annotated("i", 65536), Annotated("f", 3), Annotated("s", <<97>>)}

Lists(scalars) == UNION {[1..n -> scalars] : n \in 0..MaxArgs}

\* the list, inside depth levels of arrays, each followed by the arguments after
RECURSIVE Nested(_, _, _)
Nested(depth, list, after) ==
    IF depth = 0 THEN list
    ELSE <<JsArray(Nested(depth - 1, list, after))>> \o after

Arguments(scalars) ==
    {Nested(depth, list, after) :
        depth \in 0..MaxDepth, list \in Lists(scalars),
        after \in {<<>>, <<CHOOSE s \in scalars : s.value \in {1, -1}>>}}

Message(args) == [address |-> <<47, 97>>, args |-> args]

\* (0, 1), one second after 1900, and half a second into a day of January 1970
\* (seconds above 2^31)
TimeTags ==
    { <<ToInt32(0), ToInt32(1)>>, <<ToInt32(1), ToInt32(0)>>,
      <<[hi |-> EpochHi + 1, lo |-> 5], [hi |-> 32768, lo |-> 0]>> }

\* the packet, inside depth levels of bundles, each with an empty message after it
RECURSIVE Bundled(_, _, _)
Bundled(depth, timeTag, packet) ==
    IF depth = 0 THEN packet
    ELSE [timeTag |-> [raw |-> timeTag],
          packets |-> <<Bundled(depth - 1, timeTag, packet), Message(<<>>)>>]

PacketsOf(scalars) ==
    {Bundled(depth, timeTag, Message(args)) :
        depth \in 0..MaxBundles, timeTag \in TimeTags, args \in Arguments(scalars)}

\* the option metadata with which a packet is read back: true for arguments given
\* as {type, value} objects
Inputs ==
    {[packet |-> p, metadata |-> FALSE] : p \in PacketsOf(PlainScalars)}
        \cup {[packet |-> p, metadata |-> TRUE] : p \in PacketsOf(AnnotatedScalars)}

\* Elements of bundles to encode: a message, objects whose address does not begin
\* with /, is empty or is missing, objects with a time tag or a packet list only,
\* and a bundle without packets
Elements ==
    { Message(<<>>),
      [address |-> <<102, 111, 111>>, args |-> <<>>],
      [address |-> <<>>, args |-> <<>>],
      [args |-> <<>>],
      [timeTag |-> [raw |-> <<ToInt32(0), ToInt32(1)>>]],
      [packets |-> <<>>],
      [timeTag |-> [raw |-> <<ToInt32(0), ToInt32(1)>>], packets |-> <<>>] }

\* the elements, on their own and inside bundles
Unchecked ==
    {Bundled(depth, <<ToInt32(0), ToInt32(1)>>, element) :
        depth \in 0..MaxBundles, element \in Elements}

\* Type tag strings to decode: the strings of up to MaxTags of the tags [, ] and f
TagStrings == UNION {[1..n -> {"[", "]", "f"}] : n \in 0..MaxTags}

\* the number of tags f among the first n tags
RECURSIVE Floats(_, _)
Floats(tags, n) ==
    IF n = 0 THEN 0 ELSE Floats(tags, n - 1) + (IF tags[n] = "f" THEN 1 ELSE 0)

\* the message to "/a" with this type tag string, whose i-th float is i
Wire(tags) ==
    writeString(<<47, 97>>)
       \o writeString(<<44>> \o [i \in 1..Len(tags) |-> CharCodeAt(tags[i])])
       \o joinParts([i \in 1..Floats(tags, Len(tags)) |-> writeFloat32(i)])

\* Strings and blobs to write and read back: up to MaxChars of the character a and
\* the NUL character, or of the bytes 0 and 200
Strings == UNION {[1..n -> {97, 0}] : n \in 0..MaxChars}

Blobs == UNION {[1..n -> {200, 0}] : n \in 0..MaxChars}

\* values of each argument type
Values(type) ==
    CASE type = "i" -> {1, -1}
      [] type = "h" -> {[high |-> 1, low |-> -1]}
      [] type = "f" -> {1, -3}
      [] type \in {"s", "S"} -> Strings
      [] type = "b" -> Blobs
      [] type = "t" -> {[raw |-> <<ToInt32(1), ToInt32(0)>>]}
      [] type = "T" -> {TRUE}
      [] type = "F" -> {FALSE}
      [] type = "N" -> {"null"}
      [] type = "I" -> {1}
      [] type = "d" -> {1, 1000}
      [] type = "c" -> {<<97>>}
      [] type = "r" -> {[r |-> 1, g |-> 2, b |-> 3, a |-> <<255, 255>>]}
      [] type = "m" -> {<<144, 60, 127, 0>>}

\* tags that are no argument type
Foreign == {"x", "?"}

\* the offsets at which an argument is written, and the bytes after it
Offsets == {0, 4}

Trailer == <<1, 1, 1, 1>>

\* the data of one argument of a type, for the bytes of a message
Sample(type) ==
    IF type \in argumentTypes
    THEN Writer(type, CHOOSE value \in Values(type) :
                         \A other \in Values(type) : Len(Writer(type, other))
                                                        <= Len(Writer(type, value)))
    ELSE <<>>

\* type tag strings with one tag, alone, after or before an i, or in an array
TypedTags ==
    UNION {{<<type>>, <<"i", type>>, <<type, "i">>, <<"[", type, "]">>} :
              type \in argumentTypes \cup {"x"}}

\* the message to "/a" with this type tag string and one argument for each tag
TypedWire(tags) ==
    writeString(<<47, 97>>)
       \o writeString(<<44>> \o [i \in 1..Len(tags) |-> CharCodeAt(tags[i])])
       \o joinParts([i \in 1..Len(tags) |->
                        IF tags[i] \in {"[", "]"} THEN <<>> ELSE Sample(tags[i])])

\* Type tag strings of messages to read: one that begins with a comma, and the
\* empty string, i and i, which do not
Malformed == {<<44>>, <<>>, <<105>>, <<105, 44>>}

\* Values given as arguments without a type: booleans, a string, a whole number,
\* a number and a half, undefined, null, bytes, {high, low}, an object of another
\* kind, a function; and values given as {type, value}
Natives ==
    { JsBoolean(TRUE), JsBoolean(FALSE), JsString(<<97>>), JsNumber(1), JsNumber(0),
      [kind |-> "number", value |-> 1, half |-> TRUE],
      [kind |-> "undefined"], [kind |-> "null"],
      [kind |-> "bytes", value |-> <<200>>],
      [kind |-> "long", value |-> [high |-> 0, low |-> 1]],
      [kind |-> "other"], [kind |-> "function"],
      Annotated("i", 1), Annotated("f", 1), Annotated("s", <<97>>) }

\* Local times to convert, in ms since 1970: whole milliseconds, some with half
\* a millisecond more, some with 1 - 250 / 2^32 ms more (at 999 ms into a second,
\* that is 2^-34 s before the next second)
LocalTimes ==
    {[epochs |-> 0, ms |-> ms, sub |-> sub] :
        ms \in {0, 1, 125, 500, 999, 1000, 1999, 2500, 65535999},
        sub \in {[hi |-> 0, lo |-> 0], [hi |-> 32768, lo |-> 0],
                 [hi |-> 65535, lo |-> 65286]}}

\* Headers to decode: the bundle literal, strings next to it, addresses, others
Headers ==
    { <<35, 98, 117, 110, 100, 108, 101>>,        \* #bundle
      <<35, 98, 117, 110, 100, 108>>,             \* #bundl
      <<35, 98, 117, 110, 100, 108, 101, 115>>,   \* #bundles
      <<35, 102, 111, 111>>,                      \* #foo
      <<35>>,                                     \* #
      <<47, 97>>,                                 \* /a
      <<47>>,                                     \* /
      <<97>>,                                     \* a
      <<98, 117, 110, 100, 108, 101>>,            \* bundle
      <<>> }

\* what follows the header: the time tag (0, 1) of a bundle without packets, or
\* the type tag string of a message without arguments
Bodies == { writeTimeTag([raw |-> <<ToInt32(0), ToInt32(1)>>]), writeString(<<44>>) }

\* a packet is chosen, or the bytes of a message with a chosen type tag string,
\* or bytes with a chosen header
InitCodec ==
    /\ Constructed
    /\ notes = NoNotes
    /\ \/ \E input \in Inputs :
             /\ codecIn = input.packet
             /\ codecMeta = input.metadata
             /\ codecTags = <<>>
             /\ codecWire = <<>>
             /\ codecPc = "packet"
       \/ \E packet \in Unchecked :
             /\ codecIn = packet
             /\ codecMeta = FALSE
             /\ codecTags = <<>>
             /\ codecWire = <<>>
             /\ codecPc = "unchecked"
       \/ \E tags \in TagStrings, metadata \in BOOLEAN :
             /\ codecIn = NoPacket
             /\ codecMeta = metadata
             /\ codecTags = tags
             /\ codecWire = Wire(tags)
             /\ codecPc = "bytes"
       \/ \E tags \in TypedTags, metadata \in BOOLEAN :
             /\ codecIn = NoPacket
             /\ codecMeta = metadata
             /\ codecTags = tags
             /\ codecWire = TypedWire(tags)
             /\ codecPc = "bytes"
       \/ \E type \in argumentTypes, offset \in Offsets, metadata \in BOOLEAN :
             \E value \in Values(type) :
                /\ codecIn = [type |-> type, value |-> value, offset |-> offset]
                /\ codecMeta = metadata
                /\ codecTags = <<>>
                /\ codecWire = <<>>
                /\ codecPc = "argument"
       \/ \E type \in Foreign, offset \in Offsets, metadata \in BOOLEAN :
             /\ codecIn = [type |-> type, value |-> <<>>, offset |-> offset]
             /\ codecMeta = metadata
             /\ codecTags = <<>>
             /\ codecWire = Zeros(offset) \o Trailer
             /\ codecPc = "argBytes"
       \/ \E typeTags \in Malformed, offset \in Offsets, metadata \in BOOLEAN :
             /\ codecIn = [offset |-> offset, typeTags |-> typeTags]
             /\ codecMeta = metadata
             /\ codecTags = <<>>
             /\ codecWire = Zeros(offset) \o writeString(<<47, 102, 111, 111>>)
                                \o writeString(typeTags)
             /\ codecPc = "message"
       \/ \E arg \in Natives, other \in Natives :
             /\ codecIn = [args |-> <<arg, other>>]
             /\ codecMeta = FALSE
             /\ codecTags = <<>>
             /\ codecWire = <<>>
             /\ codecPc = "arguments"
       \/ \E native \in LocalTimes, metadata \in BOOLEAN :
             /\ codecIn = [timeTag |-> [native |-> native], packets |-> <<>>]
             /\ codecMeta = metadata
             /\ codecTags = <<>>
             /\ codecWire = <<>>
             /\ codecPc = "native"
       \/ \E header \in Headers, body \in Bodies, metadata \in BOOLEAN :
             /\ codecIn = NoPacket
             /\ codecMeta = metadata
             /\ codecTags = <<>>
             /\ codecWire = writeString(header) \o body
             /\ codecPc = "bytes"
    /\ codecOut = NoPacket

\* SuperSonic.osc.encode(packet): the bytes are kept, or the Error thrown is
\* caught
Encode ==
    /\ codecPc \in {"packet", "unchecked", "native"}
    /\ IF writePacketThrows(codecIn, defaults)
       THEN /\ codecOut' = encode(codecIn)
            /\ codecPc' = "failed"
            /\ UNCHANGED codecWire
       ELSE /\ codecWire' = encode(codecIn)
            /\ codecPc' = CASE codecPc = "packet" -> "encoded"
                             [] codecPc = "unchecked" -> "written"
                             [] codecPc = "native" -> "stamped"
            /\ UNCHANGED codecOut
    /\ UNCHANGED <<codecIn, codecMeta, codecTags, appVars>>

\* SuperSonic.osc.decode(bytes, {metadata})
Decode ==
    /\ codecPc \in {"encoded", "bytes", "stamped"}
    /\ codecOut' = decode(codecWire, codecMeta)
    /\ codecPc' = CASE codecPc = "encoded" -> "decoded"
                     [] codecPc = "bytes" -> "read"
                     [] codecPc = "stamped" -> "restamped"
    /\ UNCHANGED <<codecIn, codecMeta, codecTags, codecWire, appVars>>

\* osc[writer](arg.value) of osc.writeArgument, into a buffer in which offset
\* bytes come before it and other bytes after it
WriteArgument ==
    /\ codecPc = "argument"
    /\ codecWire' = Zeros(codecIn.offset) \o Writer(codecIn.type, codecIn.value)
                        \o Trailer
    /\ codecPc' = "argWritten"
    /\ UNCHANGED <<codecIn, codecMeta, codecTags, codecOut, appVars>>

\* osc.readArgument(argType, typeTagString, dv, options, offsetState) with
\* offsetState = {idx: offset}: the argument and the offset after it, or the
\* Error thrown
ReadArgument ==
    /\ codecPc \in {"argWritten", "argBytes"}
    /\ codecOut' = readArgument(codecIn.type, codecWire, [metadata |-> codecMeta],
                                codecIn.offset)
    /\ codecPc' = "argRead"
    /\ UNCHANGED <<codecIn, codecMeta, codecTags, codecWire, appVars>>

\* osc.readMessage(data, {metadata}, offsetState) with the caller's offsetState
\* = {idx: offset}: the message and the idx of offsetState after the call, or the
\* Error thrown and that idx
ReadMessage ==
    /\ codecPc = "message"
    /\ codecOut' = readMessage(codecWire,
                               [metadata |-> codecMeta, unpackSingleArgs |-> TRUE],
                               codecIn.offset)
    /\ codecPc' = "messageRead"
    /\ UNCHANGED <<codecIn, codecMeta, codecTags, codecWire, appVars>>

\* args = osc.annotateArguments(args) in osc.collectArguments, when
\* options.metadata is false: the annotated arguments, or the Error thrown
Annotate ==
    /\ codecPc = "arguments"
    /\ codecOut' = IF annotateArgumentsThrows(codecIn.args)
                   THEN Throw("Can't infer OSC argument type")
                   ELSE [args |-> annotateArguments(codecIn.args)]
    /\ codecPc' = "annotated"
    /\ UNCHANGED <<codecIn, codecMeta, codecTags, codecWire, appVars>>

----------------------------------------------------------------------------
(* SuperSonic.send(address, ...args) *)

\* the {type, value} that send makes of an argument (lines 1424-1434), of a
\* string, a number or bytes
oscArg(arg) ==
    CASE arg.kind = "string" -> Annotated("s", arg.value)
      [] arg.kind = "number" ->
            Annotated(IF "half" \in DOMAIN arg THEN "f" ELSE "i", ValueOf(arg))
      [] arg.kind = "bytes" -> Annotated("b", arg.value)

\* send throws before it calls sendOSC: not initialized, an argument that is
\* neither a string, nor a number, nor bytes, or writePacket throws
sendThrows(address, args) ==
    \/ ~sonic.initialized
    \/ \E i \in 1..Len(args) : args[i].kind \notin {"string", "number", "bytes"}
    \/ writePacketThrows([address |-> address,
                          args |-> [i \in 1..Len(args) |-> oscArg(args[i])]], defaults)

\* a send that counts the message before it encodes it
SonicSendArgs_countsFirst(address, args) ==
    /\ codecIn' = [address |-> address, args |-> args]
    /\ codecPc' = "send"
    /\ UNCHANGED <<codecMeta, codecTags, codecOut, codecWire, appVars>>
    /\ sonic.messagesSent < MaxSonicSends
    /\ sonic' = [sonic EXCEPT !.messagesSent = @ + 1, !.observed = @ + 1]
    /\ last' = [NoLast EXCEPT !.op = "send", !.ready = sonic.initialized,
                              !.raised = sendThrows(address, args)]
    /\ UNCHANGED <<oscVars, unitVars, runVars, sent, audioContext, wallClock, sampled>>

\* SuperSonic.send(address, ...args): codecIn is what it was called with,
\* codecWire the bytes it gave to sendOSC
SonicSendArgs(address, args) ==
    /\ codecIn' = [address |-> address, args |-> args]
    /\ codecPc' = "send"
    /\ UNCHANGED <<codecMeta, codecTags, codecOut, appVars>>
    /\ IF sendThrows(address, args)
       THEN /\ last' = [NoLast EXCEPT !.op = "send", !.ready = sonic.initialized,
                                      !.raised = TRUE]
            /\ UNCHANGED <<oscVars, sonic, codecWire>>
            /\ UNCHANGED <<unitVars, runVars, sent, audioContext, wallClock, sampled>>
       ELSE LET message == [address |-> address,
                            args |-> [i \in 1..Len(args) |-> oscArg(args[i])]]
                oscData == writePacket(message, defaults)
            IN /\ codecWire' = oscData
               /\ SendOSCCall("send", oscData, <<>>)

\* the addresses /a, a and the empty one; the arguments: a string, a whole
\* number, bytes, a boolean and a {type, value} object
SendAddresses == {<<47, 97>>, <<97>>, <<>>}

SendArguments ==
    { JsString(<<97>>), JsNumber(1), [kind |-> "bytes", value |-> <<200>>],
      JsBoolean(TRUE), Annotated("i", 1) }

SendArgs == UNION {[1..n -> SendArguments] : n \in 0..MaxSendArgs}

\* One bring-up of the facade, and send() with these addresses and arguments
\* before, during and after it.
NextSend ==
    \/ numCalls = 0 /\ SonicInit("running")
    \/ SonicLoaded
    \/ WorkletInitialized
    \/ \E c \in Calls, k \in KindSet : SonicWorkerInitialized(c, k)
    \/ \E address \in SendAddresses, args \in SendArgs : SonicSendArgs(address, args)

SpecSend == Init /\ [][NextSend]_vars

----------------------------------------------------------------------------
(* ScsynthOSC.sendImmediate and the outbound unit *)

\* the messages /a and /b 1
MessageA == Message(<<>>)

MessageB == [address |-> <<47, 98>>, args |-> <<Annotated("i", 1)>>]

\* time tags of the bundles: (0, 1), and 1970-01-01 00:00:12.5, which is ahead
ImmediateTimeTags ==
    { <<ToInt32(0), ToInt32(1)>>,
      <<[hi |-> EpochHi, lo |-> EpochLo + 12], [hi |-> 32768, lo |-> 0]>> }

\* payloads of sendImmediate: a message, bundles of the two messages, and
\* bundles that hold /a and a bundle of /b
ImmediatePayloads ==
    {encode(MessageA)}
      \cup {encode([timeTag |-> [raw |-> t], packets |-> <<MessageA, MessageB>>]) :
                t \in ImmediateTimeTags}
      \cup {encode([timeTag |-> [raw |-> t],
                    packets |-> <<MessageA,
                                  [timeTag |-> [raw |-> t], packets |-> <<MessageB>>]>>]) :
                t \in ImmediateTimeTags}

\* One bring-up, then immediate sends, which the outbound unit takes.
NextImmediate ==
    \/ numCalls = 0 /\ OscInit(RegionA) /\ UNCHANGED <<unitVars, callerVars, sonicVars, codecVars, appVars, runVars>>
    \/ \E c \in Calls, k \in KindSet :
          WorkerInitialized(c, k) /\ UNCHANGED <<unitVars, callerVars, sonicVars, codecVars, appVars, runVars>>
    \/ \E oscData \in ImmediatePayloads :
          /\ NumRequests < MaxSends
          /\ OscSendImmediate(oscData)
          /\ UNCHANGED <<unitVars, callerVars, sonicVars, codecVars, appVars, runVars>>
    \/ \E c \in Calls : UnitReceive(c) /\ UNCHANGED <<callerVars, sonicVars, codecVars, appVars, runVars>>

SpecImmediate == Init /\ [][NextImmediate]_vars

----------------------------------------------------------------------------

NextCodec ==
    \/ Annotate /\ UNCHANGED <<oscVars, unitVars, callerVars, sonicVars, runVars, appVars>>
    \/ ReadMessage /\ UNCHANGED <<oscVars, unitVars, callerVars, sonicVars, runVars, appVars>>
    \/ Encode /\ UNCHANGED <<oscVars, unitVars, callerVars, sonicVars, runVars, appVars>>
    \/ WriteArgument /\ UNCHANGED <<oscVars, unitVars, callerVars, sonicVars, runVars, appVars>>
    \/ ReadArgument /\ UNCHANGED <<oscVars, unitVars, callerVars, sonicVars, runVars, appVars>>
    \/ Decode /\ UNCHANGED <<oscVars, unitVars, callerVars, sonicVars, runVars, appVars>>

SpecCodec == InitCodec /\ [][NextCodec]_vars

----------------------------------------------------------------------------
(* Claims about the bring-up *)

HasStart(c, k) == \E i \in DOMAIN wk[c][k].inbox : wk[c][k].inbox[i].type = "start"

AllAcked(c) == \A k \in KindSet : wk[c][k].acked

Started(c) == calls[c].state \in {"awaiting", "resolved", "rejected"}

\* C1: every worker of a bring-up is first sent 'init' with the shared buffer and
\* the layout given to init(); 'start' is sent only after all three workers have
\* answered 'initialized', to the inbound and the diagnostic worker and never to
\* the outbound worker; the orchestrator is ready only after the three answers,
\* and the 'start' requests have been sent when it becomes ready.
C1_StartAfterAllInitialized ==
    \A c \in Calls :
        /\ Started(c) =>
              \A k \in KindSet : /\ wk[c][k].inbox # <<>>
                                 /\ wk[c][k].inbox[1] = InitMessage(sharedRegion)
        /\ \A k \in KindSet :
              HasStart(c, k) => k \in {"oscIn", "debug"} /\ AllAcked(c)
        /\ calls[c].state = "resolved" =>
              AllAcked(c) /\ HasStart(c, "oscIn") /\ HasStart(c, "debug")
        /\ initialized /\ workers["oscIn"] = c => calls[c].state = "resolved"

C1_Witness ==
    /\ initialized
    /\ sharedRegion = RegionB
    /\ HasStart(1, "oscIn") /\ HasStart(1, "debug")
    /\ ~HasStart(1, "oscOut")

TimedOut(c) == calls[c].state = "rejected" /\ calls[c].err[1] = "timeout"

NoStartSent == \A c \in Calls, k \in KindSet : ~HasStart(c, k)

\* the step in which a timeout rejects init() call c
TimeoutRejects(c) == calls[c].state = "awaiting" /\ TimedOut(c)'

\* C2: an init() call whose worker has not acknowledged is rejected InitTimeout
\* ticks (5 s) after the init requests were sent, not later: the three timeouts
\* run side by side; the error is the timeout of a worker that had not
\* acknowledged (the first of them in the order outbound, inbound, diagnostic);
\* the orchestrator is not ready then or later, and no 'start' is ever sent.
C2_TimeoutRejectsAtFiveSeconds ==
    /\ [](\A c \in Calls :
            /\ calls[c].state = "awaiting" =>
                  /\ calls[c].age <= InitTimeout
                  /\ \A k \in KindSet : wk[c][k].acked \/ wk[c][k].timer
            /\ TimedOut(c) =>
                  /\ calls[c].timedOutAt = InitTimeout
                  /\ ~initialized
                  /\ NoStartSent)
    /\ [][\A c \in Calls : TimeoutRejects(c) =>
            \E k \in KindSet :
                /\ calls'[c].err = <<"timeout", WorkerName(k)>>
                /\ ~wk[c][k].acked
                /\ \A k2 \in KindSet : KindIndex(k2) < KindIndex(k) => wk[c][k2].acked]_vars

\* the inbound worker alone stayed silent and init() was rejected with its timeout
C2_Witness ==
    /\ TimedOut(1)
    /\ calls[1].err = <<"timeout", "OSC IN">>
    /\ wk[1]["oscOut"].acked /\ wk[1]["debug"].acked /\ ~wk[1]["oscIn"].acked

\* C3 (as claimed): a worker's 'error' message that arrives while init() waits for
\* the acknowledgments rejects init() with that error.
C3_ErrorAbortsInit ==
    [][\A c \in Calls, k \in KindSet :
          ( /\ calls[c].state = "awaiting"
            /\ errors' = Append(errors, [error |-> <<"worker", c, k>>, unit |-> k]) )
          => /\ calls'[c].state = "rejected"
             /\ calls'[c].err = <<"worker", c, k>>]_vars

\* C4 (as claimed): the 'initialized' observer has been invoked once for each time
\* the orchestrator became ready, whatever the interleaving of init() calls.
C4_NotifiedOncePerReady == notified = readied

----------------------------------------------------------------------------
(* Claims about scheduling and cancellation *)

Dispatched(c) == {unit[c].dispatched[n] : n \in DOMAIN unit[c].dispatched}

\* a cancel request that matches send s stands behind it in the queue
CancelledLater(s) ==
    \E n \in DOMAIN Outbox(s.c) :
        /\ n > s.idx
        /\ Outbox(s.c)[n].type \in CancelTypes
        /\ Matches(Outbox(s.c)[n], s)

----------------------------------------------------------------------------
(* Claims about the facade *)

\* C6 (as claimed): a send on a system that is not ready forwards nothing to any
\* worker and raises no exception to the caller.
C6_NotReadyIsSilentNoOp ==
    (last.op # "none" /\ ~last.ready) => (last.forwarded = 0 /\ ~last.raised)

\* the places of the 'send' requests in the queues of the outbound workers
Forwarded ==
    {<<c, i>> \in Calls \X (1..(MaxSonicSends + 1)) :
        i \in DOMAIN Outbox(c) /\ Outbox(c)[i].type = "send"}

Request(at) == Outbox(at[1])[at[2]]

\* the payload is at least 16 bytes long and starts with "#bundle" and a NUL
HasBundleHeader(p) ==
    /\ Len(p) >= 16
    /\ <<p[1], p[2], p[3], p[4], p[5], p[6], p[7]>> = <<35, 98, 117, 110, 100, 108, 101>>
    /\ p[8] = 0

\* bytes 9..16 of the payload, the time tag
TimeTag(p) == SubSeq(p, 9, 16)

\* C7 (as claimed): the request forwarded for a payload carries a delay exactly
\* when the payload has 16 bytes or more, the bundle header, and a time tag other
\* than (0, 1).
C7_DelayUnlessTagOne ==
    \A at \in Forwarded :
        Request(at).waitTimeMs # NullWait
          <=> (HasBundleHeader(Request(at).oscData)
               /\ TimeTag(Request(at).oscData) # <<0, 0, 0, 0, 0, 0, 0, 1>>)

\* C7 (amended): the request forwarded for a payload carries a delay exactly when
\* the payload has 16 bytes or more, the bundle header, and a time tag that is
\* neither (0, 0) nor (0, 1); otherwise it carries none, whatever waitTimeMs the
\* caller's options held.
C7_DelayUnlessTagZeroOrOne ==
    \A at \in Forwarded :
        Request(at).waitTimeMs # NullWait
          <=> (HasBundleHeader(Request(at).oscData)
               /\ TimeTag(Request(at).oscData) \notin {<<0, 0, 0, 0, 0, 0, 0, 0>>,
                                             <<0, 0, 0, 0, 0, 0, 0, 1>>})

\* a bundle with time tag (0, 0), sent with options that held a waitTimeMs, was
\* forwarded without a delay
C7_Witness ==
    \E at \in Forwarded :
        /\ Request(at).oscData = Bundle(<<0, 0, 0, 0>>, <<0, 0, 0, 0>>)
        /\ Request(at).editorId = 1 /\ Request(at).runTag = "x"
        /\ Request(at).waitTimeMs = NullWait

\* C8 (as claimed): while the audio clock runs, the offset in use is the one
\* sampled at the latest transition into 'running'.
C8_OffsetFromLatestRunning ==
    (audioContext.state = "running" /\ sonic.wasmTimeOffset # NoOffset)
        => sonic.wasmTimeOffset = sampled

\* C9: whenever sendOSC has computed a delay, the offset it used was set, and was
\* 2208988800 s plus a clock difference; an initialized facade has an offset.
C9_OffsetKnownForDelay ==
    /\ last.delay # NullWait =>
          /\ last.offset # NoOffset
          /\ last.offset[1].epochs = 1
    /\ sonic.initialized => sonic.wasmTimeOffset # NoOffset

\* after a shutdown and a second bring-up a bundle was forwarded with a delay
C9_Witness ==
    /\ numCalls = 2
    /\ last.op = "sendOSC" /\ last.forwarded = 1
    /\ last.delay # NullWait
    /\ last.offset = sonic.wasmTimeOffset
    /\ \E at \in Forwarded : /\ Request(at).oscData = last.payload
                                /\ Request(at).waitTimeMs = last.delay

\* seconds + fraction / 2^32 of the time tag, in ms
BundleTime(p) == NumAdd(SecondsMs(GetUint32(p, 8)), FractionMs(GetUint32(p, 12)))

\* C10: a delay computed for a bundle satisfies
\* delay + offset + currentTime + 50 ms = bundle time, and the request forwarded
\* carries that delay as it is, zero and negative values included.
C10_DelayFormula ==
    last.delay # NullWait =>
        /\ last.offset # NoOffset
        /\ NumAdd(NumAdd(last.delay[1], last.offset[1]), Ms(last.now + 50))
              = BundleTime(last.payload)
        /\ last.forwarded = 1
        /\ \E at \in Forwarded : /\ Request(at).oscData = last.payload
                                /\ Request(at).waitTimeMs = last.delay

\* a bundle whose time had passed was forwarded with its negative delay
C10_Witness ==
    /\ last.forwarded = 1
    /\ last.delay # NullWait
    /\ ~Positive(last.delay[1])
    /\ last.delay[1] # Ms(0)
    /\ last.delay[1].epochs = 0
    /\ \E at \in Forwarded : /\ Request(at).oscData = last.payload
                                /\ Request(at).waitTimeMs = last.delay

----------------------------------------------------------------------------
(* Claims about the running orchestrator *)

\* C11: getStats() gives null exactly when the orchestrator is not initialized;
\* otherwise it never rejects, it is settled no later than StatsTimeout (1 s) after
\* the call with an entry for each of the three workers, a timeout marker only for
\* a worker that was silent for the whole second; and an entry a worker has
\* answered is not changed by the timeouts of the others.
C11_StatsSettleWithinOneSecond ==
    /\ [](\A n \in 1..MaxStats :
            /\ stats[n].state # "rejected"
            /\ stats[n].state # "none" => (stats[n].state = "null" <=> ~stats[n].ready)
            /\ stats[n].state = "pending" => stats[n].age <= StatsTimeout
            /\ stats[n].state = "resolved" =>
                  /\ stats[n].settledAt <= StatsTimeout
                  /\ \A k \in KindSet : stats[n].result[k] \in {"stats", "timeout"}
            /\ \A k \in KindSet :
                  stats[n].result[k] = "timeout" => stats[n].age >= StatsTimeout)
    /\ [][\A n \in 1..MaxStats, k \in KindSet :
            stats[n].result[k] = "stats" => stats'[n].result[k] = "stats"]_vars

\* the inbound worker stayed silent: its entry is the timeout marker, the other two
\* entries are the answers
C11_Witness ==
    \E n \in 1..MaxStats :
        /\ stats[n].state = "resolved"
        /\ stats[n].settledAt = StatsTimeout
        /\ stats[n].result = [k \in KindSet |->
                                 IF k = "oscIn" THEN "timeout" ELSE "stats"]

\* the messages of a sequence of bursts, one after the other
RECURSIVE Concatenation(_)
Concatenation(bursts) ==
    IF bursts = <<>> THEN <<>>
    ELSE Head(bursts).messages \o Concatenation(Tail(bursts))

\* what the observer of unit k was handed from worker c, in the order of the calls
Observed(c, k) ==
    LET From(e) == e.from = c
        calls_ == SelectSeq(received[ObserverOf(k)], From)
    IN [i \in 1..Len(calls_) |-> calls_[i].item]

\* C12: the observer of the inbound unit, and the one of the diagnostic unit, is
\* called once per message in the order of production: what it was handed so far,
\* followed by the messages of the bursts still on their way, is exactly what the
\* worker produced, nothing twice and nothing out of order.
C12_DeliveredInProductionOrder ==
    \A c \in Calls, k \in {"oscIn", "debug"} :
        /\ Len(Observed(c, k)) <= Len(produced[c][k])
        /\ Observed(c, k) = SubSeq(produced[c][k], 1, Len(Observed(c, k)))
        /\ wk[c][k].alive =>
              Observed(c, k) \o Concatenation(inflight[c][k]) = produced[c][k]

\* more messages than one burst holds reached the inbound observer, and the
\* diagnostic observer was called too
C12_Witness ==
    /\ Len(received["onOSCMessage"]) > MaxBurst
    /\ Len(received["onDebugMessage"]) > 1

\* C13: every call of the error observer carries the name of the unit the error
\* came from: oscIn, oscOut or debug.
C13_EveryErrorNamesItsUnit ==
    \A i \in DOMAIN errors : errors[i].unit \in KindSet

\* C14: an error reported by a worker of the ready orchestrator changes nothing
\* but the error observer's log: the orchestrator stays ready, keeps its three
\* handles, and no worker is terminated; every send accepted by the ready
\* orchestrator, before or after errors, has its request in the queue of the
\* outbound worker, and the inbound worker's messages keep reaching the observer
\* in order.
C14_ErrorLeavesStateAlone ==
    /\ [][\A c \in Calls, k \in KindSet :
             ( /\ initialized
               /\ errors' = Append(errors, [error |-> <<"worker", c, k>>, unit |-> k]) )
             => /\ initialized'
                /\ UNCHANGED <<workers, sharedRegion, wk, calls, numCalls, notified,
                               readied, unit, sent, inflight, received>>]_vars
    /\ [](\A i \in DOMAIN sent :
             /\ sent[i].idx \in DOMAIN Outbox(sent[i].c)
             /\ Outbox(sent[i].c)[sent[i].idx].type = "send"
             /\ Outbox(sent[i].c)[sent[i].idx].oscData = Packet)
    /\ [](\A c \in Calls :
             wk[c]["oscIn"].alive =>
                Observed(c, "oscIn") \o Concatenation(inflight[c]["oscIn"])
                   = produced[c]["oscIn"])

\* the ready orchestrator forwarded a send, then a worker reported an error, then
\* a second send was forwarded and a message of the inbound worker was delivered
C14_Witness ==
    /\ initialized
    /\ \A k \in KindSet : workers[k] # Null /\ wk[workers[k]][k].alive
    /\ Len(errors) >= 1
    /\ Len(sent) = 2
    /\ sent[1].after = 0
    /\ sent[2].after = Len(errors)
    /\ Len(Outbox(workers["oscOut"])) >= 3
    /\ \E i \in DOMAIN received["onOSCMessage"] :
          received["onOSCMessage"][i].after = Len(errors)

\* the orchestrator has been shut down: it was brought up and holds no handle
Terminated ==
    /\ numCalls > 0
    /\ \A k \in KindSet : workers[k] = Null

\* C15: terminate() posts a stop request to each worker it holds a handle of and
\* terminates it, gives up the three handles and clears the ready flag; a send, an
\* immediate send or a cancel called after it posts nothing to any worker, and a
\* second terminate() changes neither the orchestrator nor any worker.
C15_ShutdownStopsAndSilences ==
    /\ [][( /\ \E k \in KindSet : workers[k] # Null
            /\ last' # last
            /\ last'.op = "terminate" )
          => /\ Terminated'
             /\ ~initialized'
             /\ \A k \in KindSet :
                   workers[k] # Null =>
                      /\ wk'[workers[k]][k].inbox =
                            Append(wk[workers[k]][k].inbox, [type |-> "stop"])
                      /\ ~wk'[workers[k]][k].alive]_vars
    /\ [][Terminated => UNCHANGED <<workers, initialized, wk>>]_vars
    /\ [](Terminated => ~initialized)
    /\ []((last.op \in {"send", "sendImmediate", "cancelAll"} /\ ~last.ready)
             => last.forwarded = 0)

\* after the shutdown of a ready orchestrator, whose three workers got their stop
\* request, a send was called and posted nothing
C15_Witness ==
    /\ Terminated
    /\ \E c \in Calls : \A k \in KindSet :
          /\ ~wk[c][k].alive
          /\ wk[c][k].inbox # <<>>
          /\ wk[c][k].inbox[Len(wk[c][k].inbox)] = [type |-> "stop"]
    /\ readied >= 1
    /\ last.op = "send"
    /\ ~last.ready
    /\ last.forwarded = 0

\* the life-cycle state of the orchestrator, read from its fields and the init()
\* calls in progress
Lifecycle ==
    CASE numCalls = 0 -> "uninitialized"
      [] numCalls > 0 /\ Terminated -> "terminated"
      [] numCalls > 0 /\ ~Terminated /\ initialized -> "ready"
      [] numCalls > 0 /\ ~Terminated /\ ~initialized
            /\ (\E c \in Calls : calls[c].state = "awaiting") -> "initializing"
      [] OTHER -> "failed"

\* C16: once the bring-up has failed or the orchestrator has been shut down, no
\* operation, another init() included, takes it to initializing or to ready.
C16_NoWayBack ==
    [][(Lifecycle \in {"failed", "terminated"})
          => ~(Lifecycle' \in {"initializing", "ready"})]_vars

\* C17: whatever init() calls were made, failed and repeated ones included, every
\* worker that was started and is not terminated is the one a handle of the
\* orchestrator refers to, and a terminate() leaves no worker alive.
C17_ShutdownReachesEveryWorker ==
    /\ [](\A c \in Calls, k \in KindSet : wk[c][k].alive => workers[k] = c)
    /\ [][( /\ \E k \in KindSet : workers[k] # Null
            /\ \A k \in KindSet : workers'[k] = Null )
          => \A c \in Calls, k \in KindSet : ~wk'[c][k].alive]_vars

\* C18: a worker carries the message listener of a handshake, or of a stats
\* wait, exactly as long as that wait is pending: the listener is gone once the
\* wait has ended, by the awaited message or by its timeout.
C18_ListenersOfPendingWaits ==
    /\ \A c \in Calls, k \in KindSet : wk[c][k].listening <=> wk[c][k].timer
    /\ \A n \in 1..MaxStats, k \in KindSet :
          stats[n].listening[k] <=> stats[n].timer[k]

----------------------------------------------------------------------------
(* Claims about the codec *)

\* a packet as it was read, without the native times readTimeTag adds to the raw
\* pairs of its time tags
RECURSIVE RawTimes(_)
RawTimes(packet) ==
    IF Thrown(packet) \/ "address" \in DOMAIN packet THEN packet
    ELSE [timeTag |-> [raw |-> packet.timeTag.raw],
          packets |-> [i \in 1..Len(packet.packets) |-> RawTimes(packet.packets[i])]]

\* C19: decoding what encode returned for a message or bundle gives the message
\* or bundle back: the same address and arguments, arrays in arrays included, the
\* same packets in the same bundles, and the same raw time tags, (0, 1) included.
C19_RoundTrip ==
    codecPc = "decoded" => RawTimes(codecOut) = codecIn

\* the number of arrays open after the first n tags, or -1 once a ] had no [
RECURSIVE Open(_, _)
Open(tags, n) ==
    IF n = 0 THEN 0
    ELSE LET before == Open(tags, n - 1)
         IN IF before < 0 THEN -1
            ELSE IF tags[n] = "[" THEN before + 1
            ELSE IF tags[n] = "]" THEN before - 1
            ELSE before

\* every [ has its ] and every ] its [
WellNested(tags) == Open(tags, Len(tags)) = 0

\* no ] is without its [, and some [ is without its ]
Unterminated(tags) == Open(tags, Len(tags)) > 0

\* the levels of arrays in a type tag string
Levels(tags) ==
    IF tags = <<>> THEN 0
    ELSE CHOOSE d \in 0..Len(tags) :
            /\ \E n \in 0..Len(tags) : Open(tags, n) = d
            /\ \A n \in 0..Len(tags) : Open(tags, n) <= d

\* the position of the ] that closes the [ at position i of a well nested string
Closing(tags, i) ==
    CHOOSE j \in (i + 1)..Len(tags) :
        /\ Open(tags, j) = Open(tags, i - 1)
        /\ \A n \in i..(j - 1) : Open(tags, n) > Open(tags, i - 1)

\* the arguments that tags lo..hi of a well nested string stand for, the i-th
\* float of the string being i
RECURSIVE Shaped(_, _, _, _)
Shaped(tags, lo, hi, metadata) ==
    IF lo > hi THEN <<>>
    ELSE IF tags[lo] = "["
    THEN <<JsArray(Shaped(tags, lo + 1, Closing(tags, lo) - 1, metadata))>>
            \o Shaped(tags, Closing(tags, lo) + 1, hi, metadata)
    ELSE << IF metadata THEN Annotated("f", Floats(tags, lo))
            ELSE JsNumber(Floats(tags, lo)) >>
            \o Shaped(tags, lo + 1, hi, metadata)

\* C20: a message whose type tag string has two or more levels of arrays, each [
\* with its ], is decoded to arguments nested in the same way; one whose type tag
\* string leaves a [ without its ] makes decode throw the error of the open array.
C20_ArraysNest ==
    codecPc = "read" =>
        /\ (WellNested(codecTags) /\ Levels(codecTags) >= 2) =>
              codecOut = Message(Shaped(codecTags, 1, Len(codecTags), codecMeta))
        /\ Unterminated(codecTags) =>
              /\ Thrown(codecOut)
              /\ codecOut.error =
                    "an open array type tag ('[') was found without a matching close array tag"

\* the header of the bytes given to decode
Header == readString(codecWire, 0).val

\* C21: decode returns a bundle only for bytes whose header is the string
\* "#bundle", returns a message only for bytes whose header begins with "/", and
\* throws for every other header.
C21_HeaderDecides ==
    codecPc = "read" =>
        /\ (~Thrown(codecOut) /\ "timeTag" \in DOMAIN codecOut) =>
              Header = <<35, 98, 117, 110, 100, 108, 101>>
        /\ (~Thrown(codecOut) /\ "address" \in DOMAIN codecOut) =>
              (Header # <<>> /\ Header[1] = 47)
        /\ ( /\ Header # <<35, 98, 117, 110, 100, 108, 101>>
             /\ (Header = <<>> \/ Header[1] # 47) ) => Thrown(codecOut)

\* a valid message, or a valid bundle of which every element at every depth is
\* a valid message or a valid bundle
RECURSIVE Valid(_)
Valid(packet) ==
    \/ isValidMessage(packet)
    \/ /\ isValidBundle(packet)
       /\ \A i \in 1..Len(packet.packets) : Valid(packet.packets[i])

\* C22: encoding fails for a message without a valid address and for a bundle
\* without a time tag or a packet list, at every depth of a bundle: what encode
\* returned bytes for is valid down to its last element.
C22_OnlyValidPacketsEncoded ==
    codecPc = "written" => Valid(codecIn)

\* the bytes WriteArgument wrote for the argument
Encoded == SubSeq(codecWire, codecIn.offset + 1, Len(codecWire) - Len(Trailer))

\* C23: the encoding of every string and of every blob has a length that is a
\* multiple of 4 (the bytes of the string, one NUL and zeros; the 4 bytes of the
\* length of the blob, its bytes and zeros), and reading it advances the offset
\* by exactly that length.
C23_PaddedAndConsumed ==
    (codecPc = "argRead" /\ codecIn.type \in {"s", "S", "b"}) =>
        /\ Len(Encoded) % 4 = 0
        /\ codecIn.type \in {"s", "S"} =>
              /\ Len(Encoded) \in (Len(codecIn.value) + 1)..(Len(codecIn.value) + 4)
              /\ Encoded = codecIn.value \o Zeros(Len(Encoded) - Len(codecIn.value))
        /\ codecIn.type = "b" =>
              /\ Len(Encoded) \in (Len(codecIn.value) + 4)..(Len(codecIn.value) + 7)
              /\ SubSeq(Encoded, 1, 4) = <<0, 0, 0, Len(codecIn.value)>>
              /\ SubSeq(Encoded, 5, Len(Encoded))
                    = codecIn.value \o Zeros(Len(Encoded) - 4 - Len(codecIn.value))
        /\ ~Thrown(codecOut)
        /\ codecOut.idx = codecIn.offset + Len(Encoded)

\* the width on the wire of an argument of a type: 4 bytes, 8 bytes, none, or
\* the padded length of the string or of the blob with its length
Width(type, value) ==
    CASE type \in {"i", "f", "c", "r", "m"} -> 4
      [] type \in {"h", "d", "t"} -> 8
      [] type \in {"T", "F", "N", "I"} -> 0
      [] type \in {"s", "S"} -> 4 * ((Len(value) + 1 + 3) \div 4)
      [] type = "b" -> 4 + 4 * ((Len(value) + 3) \div 4)

\* a string as it can be on the wire, where the first NUL ends it
OnWire(type, value) ==
    type \in {"s", "S"} => \A i \in 1..Len(value) : value[i] # 0

\* the tags of a type tag string that are neither an argument type nor a bracket
Unrecognized(tags) ==
    {i \in 1..Len(tags) : tags[i] \notin argumentTypes \cup {"[", "]"}}

\* C24: reading one argument of any of the 15 type tags advances the offset by
\* the width of that tag (4 for i, f, c, r, m; 8 for h, d, t; 0 for T, F, N, I; the
\* padded length for s, S, b); a tag that is none of them nor a bracket is an
\* error, and it makes the decoding of the whole message fail.
C24_TagFidelity ==
    /\ (codecPc = "argRead" /\ OnWire(codecIn.type, codecIn.value)) =>
          IF codecIn.type \in
                {"i", "h", "f", "d", "s", "S", "b", "t", "T", "F", "N", "I", "c", "r", "m"}
          THEN /\ ~Thrown(codecOut)
               /\ codecOut.idx = codecIn.offset + Width(codecIn.type, codecIn.value)
          ELSE /\ Thrown(codecOut)
               /\ codecOut.error = "not a valid OSC type tag"
    /\ (codecPc = "read" /\ Unrecognized(codecTags) # {}) =>
          /\ Thrown(codecOut)
          /\ codecOut.error = "not a valid OSC type tag"

\* a blob of five bytes written at offset 4 was read, to offset 16
C24_Witness ==
    /\ codecPc = "argRead"
    /\ codecIn.type = "b"
    /\ Len(codecIn.value) = 5
    /\ codecIn.offset = 4
    /\ ~Thrown(codecOut)
    /\ codecOut.idx = 16

\* C25: reading a message with a valid address and a type tag string that does
\* not begin with a comma throws the error of the malformed type tag string,
\* returns no message, and leaves the offset object of the caller as it was.
C25_MalformedLeavesNoTrace ==
    ( /\ codecPc = "messageRead"
      /\ (codecIn.typeTags = <<>> \/ codecIn.typeTags[1] # 44) ) =>
        /\ Thrown(codecOut)
        /\ codecOut.error = "A malformed type tag string was found"
        /\ codecOut.idx = codecIn.offset

\* the wire type of a value given without a type, "" for a value that has none
WireType(arg) ==
    CASE arg.kind = "boolean" -> IF arg.value THEN "T" ELSE "F"
      [] arg.kind = "string" -> "s"
      [] arg.kind = "number" -> IF "half" \in DOMAIN arg THEN "f" ELSE "i"
      [] arg.kind = "bytes" -> "b"
      [] arg.kind \in {"null", "undefined"} -> "N"
      [] arg.kind = "object" -> arg.type
      [] OTHER -> ""

\* C26: encoding gives every value without a type its wire type: true and false
\* T and F, a string s, a whole number i, any other number f, bytes b, null and
\* undefined N; a value given as {type, value} keeps its type; a value of any
\* other kind is an error.
C26_TypesInferred ==
    codecPc = "annotated" =>
        IF \E i \in 1..Len(codecIn.args) : WireType(codecIn.args[i]) = ""
        THEN Thrown(codecOut)
        ELSE /\ ~Thrown(codecOut)
             /\ \A i \in 1..Len(codecIn.args) :
                   /\ codecOut.args[i].type = WireType(codecIn.args[i])
                   /\ codecIn.args[i].kind = "object" => codecOut.args[i] = codecIn.args[i]

\* two times of the same epoch differ by 2^-32 s (1000 / 2^32 ms) at most
Within(t, u) ==
    LET high == (t.ms - u.ms) * 65536 + t.sub.hi - u.sub.hi
        gap == high * 65536 + t.sub.lo - u.sub.lo
    IN /\ t.epochs = u.epochs
       /\ high \in {-1, 0, 1}
       /\ gap \in -1000..1000

\* C27: a local time from 1970 on, converted to a pair (seconds, fraction) and
\* back, is the same time within 2^-32 s; the fraction made is one of 0..2^32-1;
\* and the seconds, 2^31 or more, are read back as they were written.
C27_TimeRoundTrip ==
    codecPc = "restamped" =>
        LET native == codecIn.timeTag.native
            made == jsToNTPTime(native)
        IN /\ ~Thrown(codecOut)
           /\ Within(codecOut.timeTag.native, native)
           /\ made[2].hi <= 65535
           /\ made[1].hi >= 32768
           /\ codecOut.timeTag.raw[1] = made[1]

\* an address that is empty or does not begin with /
InvalidAddress(address) == address = <<>> \/ address[1] # 47

\* an argument that SuperSonic.send has no type for
Unsupported(arg) == arg.kind \notin {"string", "number", "bytes"}

\* C28: when SuperSonic.send cannot encode, for an invalid address or an
\* unsupported argument, the exception reaches the caller, nothing is forwarded
\* to the outbound unit, and the counter of sent messages and the observer of
\* sent messages are left as they were.
C28_EncodeErrorPreventsSend ==
    [][ ( /\ last' # last \/ codecIn' # codecIn
          /\ codecPc' = "send"
          /\ last'.op = "send"
          /\ \/ InvalidAddress(codecIn'.address)
             \/ \E i \in 1..Len(codecIn'.args) : Unsupported(codecIn'.args[i]) )
        => /\ last'.raised
           /\ last'.forwarded = 0
           /\ wk' = wk
           /\ sonic'.messagesSent = sonic.messagesSent
           /\ sonic'.observed = sonic.observed ]_vars

\* send was called on the initialized facade with the address a and a number,
\* and raised, with nothing counted
C28_Witness ==
    /\ codecPc = "send"
    /\ last.op = "send"
    /\ last.ready
    /\ last.raised
    /\ codecIn.address = <<97>>
    /\ codecIn.args = <<JsNumber(1)>>
    /\ sonic.initialized
    /\ sonic.messagesSent = 0

\* the payload is a bundle of exactly the messages /a and /b 1
TwoMessages(oscData) ==
    \E t \in ImmediateTimeTags :
        oscData = encode([timeTag |-> [raw |-> t], packets |-> <<MessageA, MessageB>>])

\* C29: a bundle of two messages given to sendImmediate is forwarded as one
\* 'sendImmediate' request that carries only the payload, and the outbound unit,
\* on taking it, dispatches the two messages at once, whatever the time tag,
\* holds nothing back and dispatches no bundle.
C29_ImmediateFlattens ==
    [][ \A c \in Calls :
          ( /\ unit'[c].next = unit[c].next + 1
            /\ Outbox(c)[unit[c].next].type = "sendImmediate"
            /\ TwoMessages(Outbox(c)[unit[c].next].oscData) )
          => /\ DOMAIN Outbox(c)[unit[c].next] = {"type", "oscData"}
             /\ unit'[c].wrote = unit[c].wrote \o <<encode(MessageA), encode(MessageB)>>
             /\ unit'[c].pending = {}
             /\ \A n \in DOMAIN unit'[c].wrote : unit'[c].wrote[n][1] # 35 ]_vars

\* the unit took a bundle of the two messages that is due at 00:00:12.5 and
\* dispatched the two messages
C29_Witness ==
    \E c \in Calls : \E i \in DOMAIN Outbox(c) :
        /\ unit[c].next = i + 1
        /\ Outbox(c)[i].type = "sendImmediate"
        /\ Outbox(c)[i].oscData
              = encode([timeTag |-> [raw |-> <<[hi |-> EpochHi, lo |-> EpochLo + 12],
                                               [hi |-> 32768, lo |-> 0]>>],
                        packets |-> <<MessageA, MessageB>>])
        /\ unit[c].wrote = <<encode(MessageA), encode(MessageB)>>

\* C30: init() awaiting the first offset stays suspended until the offset is
\* computed: 'loadWasm' is posted only once the offset has been computed and
\* carries it, and while the audio clock has not reached running the waiting
\* init() does not end, does not fail and does not start the orchestrator.
C30_InitAwaitsOffset ==
    [][ /\ (sonic.loadWasm = NoOffset /\ sonic'.loadWasm # NoOffset) =>
              /\ sonic'.timeOffsetPromise # NoOffset
              /\ ~sonic'.resolveTimeOffset
              /\ sonic'.loadWasm = sonic'.timeOffsetPromise
              /\ sonic'.loadWasm = sonic'.wasmTimeOffset
        /\ (sonic.pc = "awaitOffset" /\ audioContext'.state # "running") =>
              /\ sonic'.pc = "awaitOffset"
              /\ sonic'.loadWasm = NoOffset
              /\ sonic'.initializing
              /\ ~sonic'.initialized
              /\ ~sonic'.osc
              /\ numCalls' = numCalls
              /\ initialized' = initialized ]_vars

\* init() waited for the offset while the clock was suspended and ticked, and
\* posted 'loadWasm' with the offset computed when the clock started
C30_Witness ==
    /\ sonic.pc = "awaitWorklet"
    /\ wallClock > WallStart
    /\ audioContext.state = "running"
    /\ audioContext.currentTime = 0
    /\ sonic.loadWasm = <<TimeOffset(0)>>
    /\ sonic.loadWasm = sonic.wasmTimeOffset

----------------------------------------------------------------------------
(* The order of the requests to the outbound worker (lines 140-201) *)

\* the calls an application makes, by method and arguments (-1 and "" where the
\* method has no such argument)
Requests ==
    { [type |-> "send", editorId |-> 1, runTag |-> "x"],
      [type |-> "send", editorId |-> 2, runTag |-> "y"],
      [type |-> "sendImmediate", editorId |-> -1, runTag |-> ""],
      [type |-> "cancelEditorTag", editorId |-> 1, runTag |-> "x"],
      [type |-> "cancelEditor", editorId |-> 1, runTag |-> ""],
      [type |-> "cancelAll", editorId |-> -1, runTag |-> ""] }

\* the method of the orchestrator that the call runs
Invoke(call) ==
    CASE call.type = "send" ->
            OscSend(Packet, [editorId |-> call.editorId, runTag |-> call.runTag,
                             waitTimeMs |-> <<Ms(1500)>>])
      [] call.type = "sendImmediate" -> OscSendImmediate(Packet)
      [] call.type = "cancelEditorTag" -> OscCancelEditorTag(call.editorId, call.runTag)
      [] call.type = "cancelEditor" -> OscCancelEditor(call.editorId)
      [] OTHER -> OscCancelAll

\* the application makes a call; sent keeps the calls in the order they are made,
\* with the worker that was current (0 when the call returned at its guard)
IssueRequest(call) ==
    /\ Len(sent) < MaxRequests
    /\ Invoke(call)
    /\ sent' = Append(sent, [type |-> call.type, editorId |-> call.editorId,
                             runTag |-> call.runTag,
                             c |-> IF initialized THEN workers["oscOut"] ELSE Null])
    /\ UNCHANGED <<unit, last, sonicVars, codecVars, appVars, runVars>>

\* One bring-up, with calls before and after it has completed.
NextOrder ==
    \/ numCalls = 0 /\ OscInit(RegionA) /\ UNCHANGED <<unitVars, callerVars, sonicVars, codecVars, appVars, runVars>>
    \/ \E c \in Calls, k \in KindSet :
          WorkerInitialized(c, k) /\ UNCHANGED <<unitVars, callerVars, sonicVars, codecVars, appVars, runVars>>
    \/ \E call \in Requests : IssueRequest(call)

SpecOrder == Init /\ [][NextOrder]_vars

\* method and arguments of a request in the queue of a worker
Asked(msg) ==
    [type |-> msg.type,
     editorId |-> IF "editorId" \in DOMAIN msg THEN msg.editorId ELSE -1,
     runTag |-> IF "runTag" \in DOMAIN msg THEN msg.runTag ELSE ""]

\* the requests in the queue of the outbound worker of call c, after its 'init'
QueuedRequests(c) ==
    [i \in 1..(Len(Outbox(c)) - 1) |-> Asked(Outbox(c)[i + 1])]

\* the calls that passed the guard while the worker of call c was current, in
\* the order they were made
AcceptedCalls(c) ==
    LET mine == SelectSeq(sent, LAMBDA s : s.c = c)
    IN [i \in 1..Len(mine) |->
           [type |-> mine[i].type, editorId |-> mine[i].editorId,
            runTag |-> mine[i].runTag]]

\* C31: the requests in the queue of the outbound worker are the calls that were
\* accepted, one request for each call and in the order of the calls (so a
\* cancel called after a send is queued after it); the first message of the
\* queue is the 'init' of the bring-up.
C31_QueueKeepsCallOrder ==
    \A c \in Calls :
        Outbox(c) # <<>> =>
            /\ Outbox(c)[1].type = "init"
            /\ QueuedRequests(c) = AcceptedCalls(c)

\* a call rejected before the bring-up completed, then a send and a cancel of
\* its editor and tag, queued in that order
C31_Witness ==
    /\ Len(sent) = 3
    /\ sent[1].c = Null
    /\ sent[2].type = "send" /\ sent[2].c = 1
    /\ sent[3].type = "cancelEditorTag" /\ sent[3].c = 1
    /\ Len(Outbox(1)) = 3
    /\ Outbox(1)[2].type = "send"
    /\ Outbox(1)[3].type = "cancelEditorTag"

\* C33 (as claimed): while the facade is initialized its orchestrator and its
\* audio context are there, and a send that passed the initialized check did
\* not raise on a released handle, also while destroy() awaits the context.
C33_ReadyHasHandles ==
    /\ sonic.initialized => (sonic.osc /\ audioContext # NoContext)
    /\ (last.op # "none" /\ last.ready) => ~last.raised

----------------------------------------------------------------------------
(* SuperSonic.init: every wait of the bring-up, with its timers *)

\* init() is called while a bring-up is under way or done: it returns at one of
\* its guards (lines 1277-1284), so its promise resolves at once
SonicInitAgain ==
    /\ sonic.initialized \/ sonic.initializing
    /\ sonic' = [sonic EXCEPT !.again = "resolved"]
    /\ UNCHANGED <<oscVars, unitVars, runVars, codecVars, appVars, callerVars, audioContext, wallClock, sampled>>

\* the timer of #waitForWorkletInit fires (lines 1311-1313): init() goes to its
\* catch block
WorkletTimeoutFires ==
    /\ sonic.pc = "awaitWorklet"
    /\ sonic.age >= WorkletTimeout
    /\ sonic' = Caught(sonic, <<"AudioWorklet initialization timeout">>)
    /\ UNCHANGED <<oscVars, unitVars, runVars, codecVars, appVars, callerVars, audioContext, wallClock, sampled>>

\* the timer of a worker's handshake fires: osc.init() rejects, its catch block
\* calls the observer given by #initializeOSC and throws to the catch block of
\* init()
SonicInitTimeoutFires(c, k) ==
    /\ InitTimeoutFires(c, k)
    /\ sonic' = IF calls[c].state = "awaiting"
                THEN IF sonic.pc = "awaitOsc"
                     THEN Caught(OnOscError(sonic), calls'[c].err)
                     ELSE OnOscError(sonic)
                ELSE sonic
    /\ UNCHANGED <<unitVars, runVars, codecVars, appVars, callerVars, audioContext, wallClock, sampled>>

\* a second passes for the timers of the bring-up; a due timer fires first (the
\* clocks that feed the time offset are advanced by SonicTick)
BringUpTick ==
    /\ sonic.age >= 0 \/ \E c \in Calls : TimerPending(c)
    /\ ~TimerDue
    /\ sonic.age < WorkletTimeout
    /\ TimersTick
    /\ sonic' = [sonic EXCEPT !.age = IF @ >= 0 THEN @ + 1 ELSE @]
    /\ UNCHANGED <<unitVars, runVars, codecVars, appVars, callerVars, audioContext, wallClock, sampled>>

\* Bring-ups of the facade in which the fetch, the worklet and the workers may
\* answer, fail or stay silent, and init() may be called again at any time.
NextBringUp ==
    \/ \E state \in {"suspended", "running"} : SonicInit(state)
    \/ SonicInitAgain
    \/ SonicLoaded
    \/ SonicInitFails
    \/ AudioResume
    \/ WorkletInitialized
    \/ WorkletTimeoutFires
    \/ \E c \in Calls, k \in KindSet : SonicWorkerInitialized(c, k)
    \/ \E c \in Calls, k \in KindSet : SonicInitTimeoutFires(c, k)
    \/ BringUpTick
    \/ SonicTick

SpecBringUp == Init /\ [][NextBringUp]_vars

\* Fair scheduling: the load of the engine answers or fails, the audio clock
\* reaches running, time passes and a timer that is due fires.  Nothing obliges
\* the worklet or a worker to answer.
FairBringUp ==
    /\ SpecBringUp
    /\ WF_vars(sonic.pc = "loading" /\ (SonicLoaded \/ SonicInitFails))
    /\ WF_vars(AudioResume)
    /\ WF_vars(BringUpTick)
    /\ WF_vars(WorkletTimeoutFires)
    /\ \A c \in Calls, k \in KindSet : WF_vars(SonicInitTimeoutFires(c, k))

\* a promise returned by init() settles in this step
Settles ==
    \/ sonic.settled = "none" /\ sonic'.settled # "none"
    \/ sonic.again = "none" /\ sonic'.again # "none"

\* C32 (as claimed): under fair scheduling an init() that has begun settles, and
\* whenever a promise of init() settles the initializing flag is false.
C32_InitSettles ==
    /\ (sonic.initializing ~> sonic.settled # "none")
    /\ [][Settles => ~sonic'.initializing]_vars

\* C34 (as claimed): whenever a promise returned by init() resolves, the instance
\* is initialized, also for a call that overlaps a bring-up under way.
C34_ResolvedMeansInitialized ==
    [][ (\/ sonic.settled # "resolved" /\ sonic'.settled = "resolved"
         \/ sonic.again # "resolved" /\ sonic'.again = "resolved")
        => sonic'.initialized ]_vars

\* C35 (as claimed): when the bring-up of the orchestrator fails inside init(),
\* this.onError is called exactly once for it, init() rejects, and stats.errors
\* grows by at most one.
C35_FailureReportedOnce ==
    [][ (sonic.pc = "awaitOsc" /\ sonic'.pc = "idle" /\ ~sonic'.initialized)
        => /\ sonic'.settled = "rejected"
           /\ sonic'.reported = sonic.reported + 1
           /\ sonic'.statErrors <= sonic.statErrors + 1 ]_vars

----------------------------------------------------------------------------
(* Decoding step by step: the loops of osc.readBundleContents (lines 729-732) *)
(* and osc.readArgumentsIntoArray (lines 584-599), with the calls that are    *)
(* under way kept on a stack.  codecWire is the data, codecOut the reader:    *)
(* its offsetState.idx, its stack and whether it runs, returned or threw.     *)

\* a call under way: readPacket about to read its header ("packet"), the loop of
\* readBundleContents ("bundle"), the loop of readArgumentsIntoArray ("args")
Frame(kind, len, types, i) == [kind |-> kind, len |-> len, types |-> types, i |-> i]

\* osc.readPacket(data) is called: len is the length of the data, idx is 0
Reading(data) ==
    [idx |-> 0, stack |-> <<Frame("packet", Len(data), <<>>, 0)>>, status |-> "running"]

Top == codecOut.stack[Len(codecOut.stack)]

\* the call on top of the stack returns to its caller
Return(idx) ==
    [idx |-> idx, stack |-> SubSeq(codecOut.stack, 1, Len(codecOut.stack) - 1),
     status |-> IF Len(codecOut.stack) = 1 THEN "returned" ELSE "running"]

\* the call on top of the stack goes on as frame, or that frame is a call it makes
GoOn(idx, frame) ==
    [codecOut EXCEPT !.idx = idx, !.stack[Len(codecOut.stack)] = frame]

Call(idx, frame) ==
    [codecOut EXCEPT !.idx = idx, !.stack = Append(@, frame)]

Raise == [codecOut EXCEPT !.status = "thrown"]

Walking == codecPc = "walk" /\ codecOut.status = "running"

\* osc.readPacket reads the header and goes into readBundleContents, which reads
\* the time tag, or into readMessageContents and readArguments, which reads the
\* type tag string (lines 738-751, 727-728, 669-673, 559-565)
ReadHeader ==
    /\ Walking
    /\ Top.kind = "packet"
    /\ LET header == readString(codecWire, codecOut.idx)
           timeTag == readTimeTag(codecWire, header.idx)
           typeTagString == readString(codecWire, header.idx)
           argTypes == [i \in 1..(Len(typeTagString.val) - 1) |->
                           FromCharCode(typeTagString.val[i + 1])]
       IN codecOut' =
            IF header.val # <<>> /\ header.val[1] = 35
            THEN IF Thrown(timeTag) THEN Raise
                 ELSE GoOn(timeTag.idx, Frame("bundle", Top.len, <<>>, 0))
            ELSE IF header.val # <<>> /\ header.val[1] = 47
            THEN IF typeTagString.val = <<>> \/ typeTagString.val[1] # CharCodeAt(",")
                 THEN Raise
                 ELSE GoOn(typeTagString.idx, Frame("args", 0, argTypes, 0))
            ELSE Raise
    /\ UNCHANGED <<oscVars, unitVars, callerVars, sonicVars, runVars, appVars,
                   codecIn, codecMeta, codecTags, codecWire, codecPc>>

\* mutant: the loop skips to where the size says the element ends
BundleLoop_skips ==
    /\ Walking
    /\ Top.kind = "bundle"
    /\ LET packetSize == readInt32(codecWire, codecOut.idx)
       IN codecOut' =
            IF codecOut.idx < Top.len
            THEN IF Thrown(packetSize) THEN Raise
                 ELSE [codecOut EXCEPT !.idx = packetSize.idx + packetSize.val]
            ELSE Return(codecOut.idx)
    /\ UNCHANGED <<oscVars, unitVars, callerVars, sonicVars, runVars, appVars,
                   codecIn, codecMeta, codecTags, codecWire, codecPc>>

\* one test of the while loop of readBundleContents: the size of the next element
\* is read and readPacket called with the end that size gives, or the loop ends
\* (lines 729-736)
BundleLoop ==
    /\ Walking
    /\ Top.kind = "bundle"
    /\ LET packetSize == readInt32(codecWire, codecOut.idx)
       IN codecOut' =
            IF codecOut.idx < Top.len
            THEN IF Thrown(packetSize) THEN Raise
                 ELSE Call(packetSize.idx,
                           Frame("packet", packetSize.idx + packetSize.val, <<>>, 0))
            ELSE Return(codecOut.idx)
    /\ UNCHANGED <<oscVars, unitVars, callerVars, sonicVars, runVars, appVars,
                   codecIn, codecMeta, codecTags, codecWire, codecPc>>

\* one test of the while loop of readArgumentsIntoArray: an array is opened and
\* read by a call of its own, or one argument is read, or the loop ends
\* (lines 584-600)
ArgumentLoop ==
    /\ Walking
    /\ Top.kind = "args"
    /\ LET argTypes == Top.types
           i == Top.i
           fromArrayOpen == SubSeq(argTypes, i + 2, Len(argTypes))
           endArrayIdx == IndexOf(fromArrayOpen, "]")
           typesInArray == SubSeq(fromArrayOpen, 1, endArrayIdx)
           arg == readArgument(argTypes[i + 1], codecWire, defaults, codecOut.idx)
       IN codecOut' =
            IF i >= Len(argTypes) THEN Return(codecOut.idx)
            ELSE IF argTypes[i + 1] = "["
            THEN IF endArrayIdx < 0 THEN Raise
                 ELSE [codecOut EXCEPT
                         !.stack = Append([@ EXCEPT ![Len(@)].i = i + endArrayIdx + 2],
                                          Frame("args", 0, typesInArray, 0))]
            ELSE IF Thrown(arg) THEN Raise
            ELSE GoOn(arg.idx, [Top EXCEPT !.i = i + 1])
    /\ UNCHANGED <<oscVars, unitVars, callerVars, sonicVars, runVars, appVars,
                   codecIn, codecMeta, codecTags, codecWire, codecPc>>

\* the sizes written before an element: right for an empty message, zero,
\* negative, and beyond the data
ElementSizes == {8, 0, -4, -8, -24, 100}

\* what follows a size: nothing, a message, a bundle without elements, a bundle
\* with an element of size zero
ElementBodies ==
    { <<>>, Packet,
      BundleHeader \o Zeros(8),
      BundleHeader \o Zeros(8) \o Zeros(4) }

\* type tag strings with arrays closed, open and inside one another
WalkTags ==
    { <<>>, <<105>>, <<91, 105, 93>>, <<91, 91, 105, 93, 93>>, <<91, 105>>,
      <<105, 91, 93, 102>>, <<120>>, <<93>> }

\* the data given to decode: bundles of one or two elements, messages, and data
\* that is neither
WalkInputs ==
    {BundleHeader \o Zeros(8) \o writeInt32(size) \o body :
        size \in ElementSizes, body \in ElementBodies}
    \cup {BundleHeader \o Zeros(8) \o writeInt32(s1) \o Packet \o writeInt32(s2) \o Packet :
            s1 \in ElementSizes, s2 \in ElementSizes}
    \cup {writeString(<<47, 97>>) \o writeString(<<44>> \o tags) \o Zeros(8) :
            tags \in WalkTags}
    \cup {<<>>, Zeros(4), BundleHeader, <<35, 0, 0, 0>> \o Zeros(8)}

InitWalk ==
    /\ Constructed
    /\ notes = NoNotes
    /\ codecIn = NoPacket
    /\ codecMeta = FALSE
    /\ codecTags = <<>>
    /\ codecWire \in WalkInputs
    /\ codecOut = Reading(codecWire)
    /\ codecPc = "walk"

NextWalk ==
    \/ ReadHeader
    \/ BundleLoop
    \/ ArgumentLoop

SpecWalk == InitWalk /\ [][NextWalk]_vars

\* the decoder runs on until it returns or throws
FairWalk == SpecWalk /\ WF_vars(NextWalk)

\* the loop on top of the stack is about to go round once more
InBundleLoop == Walking /\ Top.kind = "bundle" /\ codecOut.idx < Top.len
InArgumentLoop == Walking /\ Top.kind = "args" /\ Top.i < Len(Top.types)

\* C36: decoding ends, by a return or by an error, for every data; each round of
\* the loop over the elements of a bundle moves the offset forward, and each
\* round of the loop over the arguments moves the offset or the tag index
\* forward, whatever the size fields say.
C36_DecodingTerminates ==
    /\ <>(codecOut.status # "running")
    /\ [][InBundleLoop =>
            \/ codecOut'.status = "thrown"
            \/ codecOut'.idx > codecOut.idx]_vars
    /\ [][InArgumentLoop =>
            \/ codecOut'.status = "thrown"
            \/ codecOut'.idx > codecOut.idx
            \/ codecOut'.stack[Len(codecOut.stack)].i > Top.i]_vars

\* a bundle whose first element has the size -4 and whose second has the size 0
\* was read to its end
C36_Witness ==
    /\ codecWire = BundleHeader \o Zeros(8) \o writeInt32(-4) \o Packet
                      \o writeInt32(0) \o Packet
    /\ codecOut.status = "returned"
    /\ codecOut.idx = Len(codecWire)

----------------------------------------------------------------------------
(* AudioInterface: the page's own object around the engine *)

\* everything of the engine's library; the page's objects are in appVars
engineVars == <<oscVars, unitVars, callerVars, sonicVars, runVars, codecVars>>

\* new SuperSonic() followed by its init(): the engine is being brought up
NewEngine == [state |-> "initializing", defs |-> FALSE, sends |-> <<>>]

\* SuperSonic.send and loadSynthDefs throw on an engine that is not initialized
EngineThrows(a, e) == a.engines[e].state # "initialized"

\* this.sonic.send(...) of the page, on the engine this.sonic is at the time
EngineSend(a, what) ==
    [a EXCEPT !.engines[a.sonic].sends = Append(@, what)]

\* init() is called (by the Play button or otherwise): it returns this.sonic
\* when initialised is set, and waits for the import of the library otherwise
AudioInit ==
    /\ Len(audio.inits) < MaxClicks
    /\ audio' = [audio EXCEPT !.inits = Append(@,
                    IF audio.initialised
                    THEN [pc |-> "returned", engine |-> audio.sonic]
                    ELSE [pc |-> "import", engine |-> 0])]
    /\ UNCHANGED <<engineVars, page, notes>>

\* the import has resolved: this.sonic = new SuperSonic(), and its init() starts
Imported(n) ==
    /\ audio.inits[n].pc = "import"
    /\ audio' = [audio EXCEPT !.engines = Append(@, NewEngine),
                              !.sonic = Len(audio.engines) + 1,
                              !.inits[n] = [pc |-> "engine",
                                            engine |-> Len(audio.engines) + 1]]
    /\ UNCHANGED <<engineVars, page, notes>>

\* the engine's init() has resolved, and the call goes on to
\* this.sonic.loadSynthDefs(...), which rejects on an engine that is not initialized
EngineReady(n) ==
    /\ audio.inits[n].pc = "engine"
    /\ LET e == audio.inits[n].engine
           a == [audio EXCEPT !.engines[e].state = "initialized"]
       IN audio' = IF EngineThrows(a, a.sonic)
                   THEN [a EXCEPT !.inits[n].pc = "rejected"]
                   ELSE [a EXCEPT !.engines[a.sonic].defs = TRUE,
                                  !.inits[n] = [pc |-> "synthdefs", engine |-> a.sonic]]
    /\ UNCHANGED <<engineVars, page, notes>>

\* the engine's init() has rejected, and so does the call
EngineFails(n) ==
    /\ audio.inits[n].pc = "engine"
    /\ audio' = [audio EXCEPT !.engines[audio.inits[n].engine].state = "failed",
                              !.inits[n].pc = "rejected"]
    /\ UNCHANGED <<engineVars, page, notes>>

\* loadSynthDefs has resolved (it sent a /d_recv for what it could fetch), and
\* the call goes on to setupReverb(), initialised = true and return this.sonic
SynthDefsLoaded(n) ==
    /\ audio.inits[n].pc = "synthdefs"
    /\ LET a == EngineSend([audio EXCEPT !.sonic = audio.inits[n].engine], "/d_recv")
           loaded == [a EXCEPT !.sonic = audio.sonic]
       IN audio' = IF EngineThrows(loaded, loaded.sonic)
                   THEN [loaded EXCEPT !.inits[n].pc = "rejected"]
                   ELSE [EngineSend(loaded, "reverb") EXCEPT
                            !.initialised = TRUE,
                            !.inits[n] = [pc |-> "returned", engine |-> loaded.sonic]]
    /\ UNCHANGED <<engineVars, page, notes>>

\* a collision that is played whether init() is through or not
playCollisionSound_unguarded ==
    /\ audio.collisions < MaxCollisions
    /\ audio.sonic # 0
    /\ audio' = [EngineSend(audio, "collision") EXCEPT !.collisions = @ + 1]
    /\ UNCHANGED <<engineVars, page, notes>>

\* playCollisionSound(params): nothing unless initialised, else one send on
\* this.sonic
playCollisionSound ==
    /\ audio.collisions < MaxCollisions
    /\ audio' = IF ~audio.initialised
                THEN [audio EXCEPT !.collisions = @ + 1]
                ELSE IF EngineThrows(audio, audio.sonic)
                THEN [audio EXCEPT !.collisions = @ + 1, !.raised = TRUE]
                ELSE [EngineSend(audio, "collision") EXCEPT !.collisions = @ + 1]
    /\ UNCHANGED <<engineVars, page, notes>>

NextAudio ==
    \/ AudioInit
    \/ \E n \in 1..MaxClicks : n <= Len(audio.inits) /\ Imported(n)
    \/ \E n \in 1..MaxClicks : n <= Len(audio.inits) /\ EngineReady(n)
    \/ \E n \in 1..MaxClicks : n <= Len(audio.inits) /\ EngineFails(n)
    \/ \E n \in 1..MaxClicks : n <= Len(audio.inits) /\ SynthDefsLoaded(n)
    \/ playCollisionSound

SpecAudio == Init /\ [][NextAudio]_vars

\* the engines that init() calls have returned
Returned == {audio.inits[n].engine : n \in {i \in 1..Len(audio.inits) :
                                            audio.inits[i].pc = "returned"}}

\* C37: an AudioInterface constructs at most one engine, however many init()
\* calls are made and however close together, and every call returns that engine
C37_OneEngine ==
    /\ Len(audio.engines) <= 1
    /\ Cardinality(Returned) <= 1

\* the sends of all engines together
AllSends(a) == [e \in 1..Len(a.engines) |-> a.engines[e].sends]

\* C38: while initialised is false a collision sends nothing to any engine, and
\* initialised becomes true only in the step that has sent the reverb to an
\* initialized engine whose synth definitions were requested; so a collision is
\* only ever forwarded after an init() call has run to its end
C38_NothingBeforeInit ==
    [][/\ (~audio.initialised /\ audio'.collisions # audio.collisions)
              => AllSends(audio') = AllSends(audio)
       /\ (~audio.initialised /\ audio'.initialised)
              => LET e == audio'.engines[audio'.sonic]
                 IN /\ e.state = "initialized"
                    /\ e.defs
                    /\ Len(e.sends) > 0
                    /\ e.sends[Len(e.sends)] = "reverb"
       /\ (\E e \in 1..Len(audio'.engines) :
              \E i \in 1..Len(audio'.engines[e].sends) :
                 audio'.engines[e].sends[i] = "collision")
              => \E n \in 1..Len(audio'.inits) : audio'.inits[n].pc = "returned"
      ]_vars

\* a collision came while init() was waiting and one came after it was through
C38_Witness ==
    /\ audio.collisions = 2
    /\ audio.initialised
    /\ Len(audio.engines) = 1
    /\ audio.engines[1].sends = <<"/d_recv", "reverb", "collision">>

----------------------------------------------------------------------------
(* The sphere-count control and its debounce *)

\* debounce(simulation, wait): a new function with a timeout variable of its
\* own, not set yet
debounce(p) == [p EXCEPT !.closures = @ + 1]

\* executedFunction() of the function numbered c: clearTimeout(timeout) on its
\* own variable, then timeout = setTimeout(later, wait)
executedFunction(p, c, wait) ==
    [p EXCEPT !.timers = {t \in @ : t.closure # c}
                             \cup {[closure |-> c, due |-> p.now + wait]}]

\* updateSphereCount(simulation): debounce(simulation, 300)()
updateSphereCount(p) ==
    LET made == debounce(p)
    IN executedFunction(made, made.closures, DebounceWait)

\* an input event of the sphere-count slider
SphereCountInput ==
    /\ Len(page.events) < MaxEvents
    /\ page' = updateSphereCount([page EXCEPT !.events = Append(@, page.now)])
    /\ UNCHANGED <<engineVars, audio, notes>>

\* later() of a timer that is due: clearTimeout(timeout), createSpheres()
TimerFires(t) ==
    /\ t \in page.timers
    /\ t.due <= page.now
    /\ page' = [page EXCEPT !.timers = {u \in @ : u.closure # t.closure},
                            !.created = Append(@, page.now)]
    /\ UNCHANGED <<engineVars, audio, notes>>

\* 100 ms pass; the timers that are due have run
PageTick ==
    /\ page.now < MaxTime
    /\ \A t \in page.timers : t.due > page.now
    /\ page' = [page EXCEPT !.now = @ + 1]
    /\ UNCHANGED <<engineVars, audio, notes>>

NextPage ==
    \/ SphereCountInput
    \/ \E t \in page.timers : TimerFires(t)
    \/ PageTick

SpecPage == Init /\ [][NextPage]_vars

\* the events that end a burst: the next one, if any, is 300 ms later or more
LastOfBurst == {i \in 1..Len(page.events) :
                   i < Len(page.events)
                       => page.events[i + 1] - page.events[i] >= DebounceWait}

\* when createSpheres is to be called: 300 ms after the last event of a burst
CallTimes == {page.events[i] + DebounceWait : i \in LastOfBurst}

\* the calls that must have been made: an event that comes exactly 300 ms after
\* the last one may still be in time to cancel its timer
MustCall == {page.events[i] + DebounceWait :
                i \in {j \in LastOfBurst : j < Len(page.events)
                           => page.events[j + 1] - page.events[j] > DebounceWait}}

\* C39: a burst of sphere-count events less than 300 ms apart gives exactly one
\* createSpheres call, 300 ms after the last event of the burst
C39_Debounced ==
    /\ \A k \in 1..Len(page.created) :
          /\ page.created[k] \in CallTimes
          /\ \A j \in 1..(k - 1) : page.created[j] < page.created[k]
    /\ \A at \in MustCall :
          at < page.now => \E k \in 1..Len(page.created) : page.created[k] = at

----------------------------------------------------------------------------
(* quantizeToScale *)

\* SCALES of config.js
SCALES ==
    [s \in {"Major (Ionian)", "Minor (Aeolian)", "Dorian", "Phrygian", "Lydian",
            "Mixolydian", "Pentatonic Major", "Pentatonic Minor", "Blues",
            "Harmonic Minor", "Melodic Minor", "Whole Tone", "Chromatic"} |->
        CASE s = "Major (Ionian)" -> <<0, 2, 4, 5, 7, 9, 11>>
          [] s = "Minor (Aeolian)" -> <<0, 2, 3, 5, 7, 8, 10>>
          [] s = "Dorian" -> <<0, 2, 3, 5, 7, 9, 10>>
          [] s = "Phrygian" -> <<0, 1, 3, 5, 7, 8, 10>>
          [] s = "Lydian" -> <<0, 2, 4, 6, 7, 9, 11>>
          [] s = "Mixolydian" -> <<0, 2, 4, 5, 7, 9, 10>>
          [] s = "Pentatonic Major" -> <<0, 2, 4, 7, 9>>
          [] s = "Pentatonic Minor" -> <<0, 3, 5, 7, 10>>
          [] s = "Blues" -> <<0, 3, 5, 6, 7, 10>>
          [] s = "Harmonic Minor" -> <<0, 2, 3, 5, 7, 8, 11>>
          [] s = "Melodic Minor" -> <<0, 2, 3, 5, 7, 9, 11>>
          [] s = "Whole Tone" -> <<0, 2, 4, 6, 8, 10>>
          [] s = "Chromatic" -> <<0, 1, 2, 3, 4, 5, 6, 7, 8, 9, 10, 11>>]

\* Math.abs
Abs(x) == IF x < 0 THEN -x ELSE x

\* a % n of JavaScript: the remainder has the sign of a
Remainder(a, n) == IF a < 0 THEN -((-a) % n) ELSE a % n

\* the for loop of quantizeToScale from index i on: the closest interval so far
\* is replaced only by a strictly closer one
RECURSIVE Closest(_, _, _, _)
Closest(scaleIntervals, noteInOctave, i, closestInterval) ==
    IF i > Len(scaleIntervals)
    THEN closestInterval
    ELSE Closest(scaleIntervals, noteInOctave, i + 1,
                 IF Abs(noteInOctave - scaleIntervals[i])
                        < Abs(noteInOctave - closestInterval)
                 THEN scaleIntervals[i]
                 ELSE closestInterval)

\* quantizeToScale(rawNote, config)
quantizeToScale(rawNote, config) ==
    IF config.currentScale = "No Scale"
    THEN rawNote
    ELSE LET scaleIntervals == SCALES[config.currentScale]
             octave == (rawNote - config.rootNote) \div 12
             noteInOctave == Remainder(rawNote - config.rootNote, 12)
         IN config.rootNote + (octave * 12)
                + Closest(scaleIntervals, noteInOctave, 2, scaleIntervals[1])

\* the root notes tried: C3 and the default, C4
RootNotes == {48, 60}

\* a scale or none, a root note and a raw note as far as MaxNote from it
InitScale ==
    /\ Constructed
    /\ codecIn = NoPacket
    /\ codecMeta = FALSE
    /\ codecTags = <<>>
    /\ codecWire = <<>>
    /\ codecOut = NoPacket
    /\ codecPc = "none"
    /\ \E scale \in DOMAIN SCALES \cup {"No Scale"}, root \in RootNotes :
          \E raw \in (root - MaxNote)..(root + MaxNote) :
             notes = [NoNotes EXCEPT !.currentScale = scale, !.rootNote = root,
                                     !.rawNote = raw, !.pc = "raw"]

\* note = quantizeToScale(rawNote, config)
Quantize ==
    /\ notes.pc = "raw"
    /\ notes' = [notes EXCEPT !.note = quantizeToScale(notes.rawNote, notes),
                              !.pc = "once"]
    /\ UNCHANGED <<engineVars, audio, page>>

\* the note that came back is quantized again
QuantizeAgain ==
    /\ notes.pc = "once"
    /\ notes' = [notes EXCEPT !.again = quantizeToScale(notes.note, notes),
                              !.pc = "twice"]
    /\ UNCHANGED <<engineVars, audio, page>>

NextScale ==
    \/ Quantize
    \/ QuantizeAgain

SpecScale == InitScale /\ [][NextScale]_vars

\* note is rootNote + 12k + interval for an integer k and an interval of the scale
InScale(note, config) ==
    /\ config.currentScale # "No Scale"
    /\ \E i \in 1..Len(SCALES[config.currentScale]) :
          (note - config.rootNote - SCALES[config.currentScale][i]) % 12 = 0

\* C40: a note of the selected scale, above or below the root, is returned
\* unchanged; quantizing twice gives what quantizing once gives; and with
\* 'No Scale' the note is returned unchanged
C40_ScaleNotesFixed ==
    /\ (notes.pc \in {"once", "twice"} /\ InScale(notes.rawNote, notes))
          => notes.note = notes.rawNote
    /\ notes.pc = "twice" => notes.again = notes.note
    /\ (notes.pc \in {"once", "twice"} /\ notes.currentScale = "No Scale")
          => notes.note = notes.rawNote

====
